---- MODULE Spec2Model ----
(***************************************************************************)
(* Net-benefit engine of kevinkeet/medeval (src/benefit-engine.js) and its *)
(* risk calculators (src/unnamed/part_001).                                *)
(*                                                                         *)
(* Numbers.  JavaScript doubles are modelled in fixed point:               *)
(*   expected benefit / harm (QALY per 100 patients per year)  1e-6        *)
(*   totals after Math.round(x * 1000) / 1000, burden penalty  1e-3        *)
(*   severity weights, relative risk reductions                1e-2        *)
(*   trial timeframes (years)                                  1e-1        *)
(*   life expectancy, effective horizon (years)                1e-3        *)
(*   baseline annual risk (probability)                        1e-5        *)
(*   percentages reported with one decimal (risk%, a1c)        1e-1        *)
(* An absent (undefined) field of a JavaScript object is a key that is not *)
(* in the DOMAIN of the record; null is the empty option {}.               *)
(***************************************************************************)
EXTENDS Integers, Sequences, FiniteSets, TLC

VARIABLES medication, patientData, calculatedRisks, preferences, results, status, remembered, evaluations,
          call, ret

vars == <<medication, patientData, calculatedRisks, preferences, results, status, remembered, evaluations,
          call, ret>>

(***************************************************************************)
(* JavaScript value semantics                                              *)
(***************************************************************************)
Has(o, f) == f \in DOMAIN o

\* o.f used as a condition, for a boolean-valued field
Flag(o, f) == Has(o, f) /\ o[f] = TRUE

\* o.f used as a condition, for a number-valued field (0 and undefined are falsy)
Num(o, f) == Has(o, f) /\ o[f] # 0

\* o.f || d, for a number-valued field
NumOr(o, f, d) == IF Num(o, f) THEN o[f] ELSE d

\* o.f >= k and o.f < k: comparisons with undefined are false
GE(o, f, k) == Has(o, f) /\ o[f] >= k
LT(o, f, k) == Has(o, f) /\ o[f] < k

\* o.f === s, for a string-valued field
Is(o, f, s) == Has(o, f) /\ o[f] = s

\* an object-valued entry that is present and not null
Obj(o, f) == Has(o, f) /\ o[f] # {}
The(s) == CHOOSE x \in s : TRUE

Empty == [x \in {} |-> TRUE]

Min(a, b) == IF a <= b THEN a ELSE b
Max(a, b) == IF a >= b THEN a ELSE b

\* floor(a * b / c) for a, b >= 0 and c > 0 without leaving 32-bit integers
MulDiv(a, b, c) == (a \div c) * b + ((a % c) * b) \div c

RECURSIVE SumOver(_, _)
SumOver(s, f) == IF s = <<>> THEN 0 ELSE s[1][f] + SumOver(Tail(s), f)

(***************************************************************************)
(* Static tables                                                           *)
(***************************************************************************)
\* OUTCOME_WEIGHTS, in hundredths
OUTCOME_WEIGHTS ==
  [death |-> 100, cv_death |-> 100, all_cause_mortality |-> 100, mortality |-> 100,
   stroke_disabling |-> 70, stroke_any |-> 40, stroke |-> 40,
   mi_fatal |-> 100, mi_nonfatal |-> 20, mi |-> 25,
   heart_failure_hospitalization |-> 15, hf_hospitalization |-> 15,
   hospitalization |-> 10, cv_hospitalization |-> 10,
   cv_death_hf_hosp |-> 40, mace |-> 35, mace_composite |-> 35,
   eskd_dialysis |-> 50, kidney_progression |-> 30, esrd |-> 50, doubling_creatinine |-> 20,
   amputation |-> 40, blindness |-> 40,
   thromboembolism |-> 30, stroke_recurrence |-> 40,
   hip_fracture |-> 50, vertebral_fracture |-> 20, nonvertebral_fracture |-> 15, falls |-> 5,
   exacerbations |-> 10, gout_flares |-> 2, pain_relief |-> 15, remission |-> 20,
   limb_events |-> 30, symptom_relief |-> 10, congestion_relief |-> 10,
   major_bleeding |-> 15, intracranial_bleeding |-> 60, gi_bleeding |-> 8, fatal_bleeding |-> 100,
   severe_hypoglycemia |-> 5, dka |-> 10, new_onset_diabetes |-> 5, hypercalcemia |-> 5,
   aki |-> 10, hyperkalemia_severe |-> 8, hyperkalemia |-> 5,
   atypical_femur_fracture |-> 40, osteonecrosis_jaw |-> 20,
   pneumonia |-> 10, pneumonia_copd |-> 15,
   cv_events |-> 30, afib |-> 10, falls_elderly |-> 10,
   cns_depression |-> 15, cognitive_impairment |-> 20, edema_worsening_hf |-> 10,
   discontinuation_syndrome |-> 2,
   angioedema |-> 10, pancreatitis |-> 10, rhabdomyolysis |-> 15,
   hypersensitivity_syndrome |-> 20, diarrhea_severe |-> 2]

\* this.OUTCOME_WEIGHTS[name] || d
Weight(name, d) == IF name \in DOMAIN OUTCOME_WEIGHTS THEN OUTCOME_WEIGHTS[name] ELSE d

\* BURDEN_PENALTIES, in 1e-5 (0.01, 0.03, 0.06)
BURDEN_PENALTIES == [low |-> 1000, moderate |-> 3000, high |-> 6000]

\* gocThresholds, in thousandths
gocThresholds == (1 :> 3000) @@ (2 :> 1000) @@ (3 :> 300) @@ (4 :> 0)

Tiers == {"strongly-recommended", "recommended", "consider", "caution-elderly",
          "marginal", "not-recommended"}

(***************************************************************************)
(* checkElderlySafety                                                      *)
(***************************************************************************)
ElderlyWarnings(medication_, patientData_) ==
  LET caution == medication_.elderly_caution
      age == NumOr(patientData_, "age", 65)
      isElderly == age >= 65
      isVeryElderly == age >= 75
      isFrail == Flag(patientData_, "frailty")
      hasFallRisk == Flag(patientData_, "fallRisk")
      hasCognitiveImpairment == Flag(patientData_, "dementia")
      hasHeartFailure == Flag(patientData_, "chfHistory")
                         \/ (Num(patientData_, "ef") /\ patientData_.ef < 50)
      Sev(high) == IF high THEN "high" ELSE "moderate"
      W(cond, type, high) == IF cond THEN <<[type |-> type, severity |-> Sev(high)]>> ELSE <<>>
  IN  W(Flag(caution, "fall_risk") /\ (isElderly \/ hasFallRisk),
        "fall_risk", isVeryElderly \/ hasFallRisk \/ isFrail)
      \o W(Flag(caution, "cognitive_impairment") /\ (isElderly \/ hasCognitiveImpairment),
           "cognitive", hasCognitiveImpairment)
      \o W(Flag(caution, "sedation") /\ isElderly,
           "sedation", isVeryElderly \/ isFrail)
      \o W(Flag(caution, "hypoglycemia_risk") /\ isElderly,
           "hypoglycemia", isVeryElderly \/ isFrail \/ hasCognitiveImpairment)
      \o W(Flag(caution, "avoid_in_hf") /\ hasHeartFailure, "heart_failure", TRUE)
      \o W(Flag(caution, "narrow_therapeutic_window") /\ isElderly, "toxicity", TRUE)
      \o W(Flag(caution, "avoid_if_frail") /\ isFrail, "frailty", TRUE)

checkElderlySafety(medication_, patientData_) ==
  LET age == NumOr(patientData_, "age", 65)
      isElderly == age >= 65
      isFrail == Flag(patientData_, "frailty")
      beers == IF Has(medication_, "beers_criteria") /\ Flag(medication_.beers_criteria, "listed")
                  /\ isElderly
               THEN {[listed |-> TRUE,
                      strength |-> medication_.beers_criteria.strength,
                      severity |-> IF medication_.beers_criteria.strength = "strong"
                                   THEN "high" ELSE "moderate"]}
               ELSE {}
      warnings == IF Has(medication_, "elderly_caution")
                  THEN ElderlyWarnings(medication_, patientData_) ELSE <<>>
      caution == IF Len(warnings) > 0
                 THEN {[hasWarnings |-> TRUE,
                        warnings |-> warnings,
                        overallSeverity |->
                           IF \E i \in 1..Len(warnings) : warnings[i].severity = "high"
                           THEN "high" ELSE "moderate",
                        avoidRecommended |->
                           isFrail /\ Flag(medication_.elderly_caution, "avoid_if_frail")]}
                 ELSE {}
  IN  [beersWarning |-> beers, elderlyCaution |-> caution]

(***************************************************************************)
(* estimateLifeExpectancy, getCompetingRiskFactor, getPatientAdjustmentFactor *)
(***************************************************************************)
baseLifeExpectancy ==
  [male |-> (50 :> 30) @@ (55 :> 26) @@ (60 :> 22) @@ (65 :> 18) @@ (70 :> 15)
            @@ (75 :> 12) @@ (80 :> 8) @@ (85 :> 6) @@ (90 :> 4) @@ (95 :> 3),
   female |-> (50 :> 33) @@ (55 :> 29) @@ (60 :> 25) @@ (65 :> 21) @@ (70 :> 17)
              @@ (75 :> 13) @@ (80 :> 10) @@ (85 :> 7) @@ (90 :> 5) @@ (95 :> 3)]

\* x * (pct / 100)
Scale(x, pct) == (x * pct) \div 100

\* if (cond) x *= pct / 100
ScaleIf(cond, x, pct) == IF cond THEN Scale(x, pct) ELSE x

\* mutant: reduced ejection fraction and heart-failure history both count
estimateLifeExpectancyBothHf(patientData_, calculatedRisks_) ==
  LET age == NumOr(patientData_, "age", 65)
      sex == IF Has(patientData_, "sex") THEN patientData_.sex ELSE "male"
      ageKey == Min(95, Max(50, (age \div 5) * 5))
      base == IF sex \in DOMAIN baseLifeExpectancy
              THEN baseLifeExpectancy[sex][ageKey] * 1000 ELSE 15 * 1000
      hf == ScaleIf(Flag(patientData_, "chfHistory"),
                    ScaleIf(Num(patientData_, "ef") /\ patientData_.ef < 40, base, 50),
                    70)
      ckd == ScaleIf(Obj(calculatedRisks_, "egfr") /\ The(calculatedRisks_.egfr).egfr < 60,
                     hf,
                     IF The(calculatedRisks_.egfr).egfr < 30 THEN 50
                     ELSE IF The(calculatedRisks_.egfr).egfr < 45 THEN 70 ELSE 85)
      cancer == ScaleIf(Flag(patientData_, "cancer"), ckd, 40)
      frail == ScaleIf(Flag(patientData_, "frailty"), cancer, 60)
      dementia == ScaleIf(Flag(patientData_, "dementia"), frail, 50)
      copd == ScaleIf(Flag(patientData_, "copd"), dementia, 80)
      cv == ScaleIf(Flag(patientData_, "priorMI") \/ Flag(patientData_, "priorStroke"), copd, 85)
      dm == ScaleIf(Is(patientData_, "diabetesStatus", "type2")
                      \/ Is(patientData_, "diabetesStatus", "type1"), cv, 90)
  IN  Max(dm, 500)

\* the result is in thousandths of a year
estimateLifeExpectancy(patientData_, calculatedRisks_) ==
  LET age == NumOr(patientData_, "age", 65)
      sex == IF Has(patientData_, "sex") THEN patientData_.sex ELSE "male"
      ageKey == Min(95, Max(50, (age \div 5) * 5))
      base == IF sex \in DOMAIN baseLifeExpectancy
              THEN baseLifeExpectancy[sex][ageKey] * 1000 ELSE 15 * 1000
      hf == ScaleIf((Num(patientData_, "ef") /\ patientData_.ef < 40)
                      \/ Flag(patientData_, "chfHistory"),
                    base,
                    IF Num(patientData_, "ef") /\ patientData_.ef < 40 THEN 50 ELSE 70)
      ckd == ScaleIf(Obj(calculatedRisks_, "egfr") /\ The(calculatedRisks_.egfr).egfr < 60,
                     hf,
                     IF The(calculatedRisks_.egfr).egfr < 30 THEN 50
                     ELSE IF The(calculatedRisks_.egfr).egfr < 45 THEN 70 ELSE 85)
      cancer == ScaleIf(Flag(patientData_, "cancer"), ckd, 40)
      frail == ScaleIf(Flag(patientData_, "frailty"), cancer, 60)
      dementia == ScaleIf(Flag(patientData_, "dementia"), frail, 50)
      copd == ScaleIf(Flag(patientData_, "copd"), dementia, 80)
      cv == ScaleIf(Flag(patientData_, "priorMI") \/ Flag(patientData_, "priorStroke"), copd, 85)
      dm == ScaleIf(Is(patientData_, "diabetesStatus", "type2")
                      \/ Is(patientData_, "diabetesStatus", "type1"), cv, 90)
  IN  Max(dm, 500)

\* mutant: the very-short-horizon test comes first
getCompetingRiskFactorShortFirst(trialTimeframe, lifeExpectancy, userTimeHorizon) ==
  LET horizon == IF userTimeHorizon # 0 THEN userTimeHorizon ELSE 10
      effectiveHorizon == Min(lifeExpectancy, horizon * 1000)
  IN  IF effectiveHorizon <= 1000 THEN [num |-> 1, den |-> 5]
      ELSE IF effectiveHorizon >= trialTimeframe * 100 THEN [num |-> 1, den |-> 1]
      ELSE [num |-> effectiveHorizon, den |-> trialTimeframe * 100]

\* trialTimeframe in tenths of a year, lifeExpectancy in thousandths, userTimeHorizon in
\* years; the factor is the fraction num / den
getCompetingRiskFactor(trialTimeframe, lifeExpectancy, userTimeHorizon) ==
  LET horizon == IF userTimeHorizon # 0 THEN userTimeHorizon ELSE 10
      effectiveHorizon == Min(lifeExpectancy, horizon * 1000)
  IN  IF effectiveHorizon >= trialTimeframe * 100 THEN [num |-> 1, den |-> 1]
      ELSE IF effectiveHorizon <= 1000 THEN [num |-> 1, den |-> 5]
      ELSE [num |-> effectiveHorizon, den |-> trialTimeframe * 100]

\* in tenths
getPatientAdjustmentFactor(patientData_) ==
  IF Flag(patientData_, "dementia") THEN 7 ELSE 10

(***************************************************************************)
(* calculateExpectedBenefit, calculateExpectedHarm, getBaselineRisk,       *)
(* adjustNnhForPatient                                                     *)
(***************************************************************************)
\* mutant: a multi-year NNT is not annualized
calculateExpectedBenefitNotAnnualized(nnt, baselineRisk, rrr, outcomeType, timeframe) ==
  LET severityWeight == Weight(outcomeType, 20)
  IN  IF nnt > 0
      THEN (severityWeight * 1000000) \div nnt
      ELSE IF baselineRisk # 0 /\ rrr # 0
           THEN LET arr == baselineRisk * rrr
                IN  IF arr > 0 THEN (arr * severityWeight) \div 100 ELSE 0
           ELSE 0

\* mutant: a baseline risk of zero is replaced by 1% and a harmful rrr counts as benefit
calculateExpectedBenefitDefaultRisk(nnt, baselineRisk, rrr, outcomeType, timeframe) ==
  LET severityWeight == Weight(outcomeType, 20)
  IN  IF nnt > 0
      THEN (severityWeight * 10000000) \div (nnt * timeframe)
      ELSE IF rrr # 0
           THEN LET arr == (IF baselineRisk # 0 THEN baselineRisk ELSE 1000) * rrr
                IN  (Max(arr, -arr) * severityWeight) \div 100
           ELSE 0

\* nnt: a number (0 for null); baselineRisk in 1e-5 (0 for null); rrr in thousandths
\* (0 for null); timeframe in tenths of a year.  The result is in 1e-6.
calculateExpectedBenefit(nnt, baselineRisk, rrr, outcomeType, timeframe) ==
  LET severityWeight == Weight(outcomeType, 20)
  IN  IF nnt > 0
      THEN (severityWeight * 10000000) \div (nnt * timeframe)
      ELSE IF baselineRisk # 0 /\ rrr # 0
           THEN LET arr == baselineRisk * rrr
                IN  IF arr > 0 THEN (arr * severityWeight) \div 100 ELSE 0
           ELSE 0

\* nnh in hundredths (an adjusted NNH is fractional), timeframe in tenths; result in 1e-6
calculateExpectedHarm(nnh, harmType, timeframe) ==
  IF nnh <= 0 THEN 0
  ELSE LET annualNnh == nnh * timeframe
           severityWeight == Weight(harmType, 5)
       IN  Max(0, MulDiv(severityWeight * 10000000, 100, annualNnh))

ascvdRisk(calculatedRisks_) ==
  IF Obj(calculatedRisks_, "ascvd") /\ Has(The(calculatedRisks_.ascvd), "risk")
  THEN {The(calculatedRisks_.ascvd).risk} ELSE {}

\* in 1e-5
getBaselineRisk(outcomeType, patientData_, calculatedRisks_) ==
  LET ascvd == ascvdRisk(calculatedRisks_)
      hfref == Num(patientData_, "ef") /\ patientData_.ef < 40
      diabetic == Is(patientData_, "diabetesStatus", "type2")
                  \/ Is(patientData_, "diabetesStatus", "type1")
  IN  CASE outcomeType \in {"mace_composite", "mace", "cv_death"} ->
             IF ascvd # {} THEN The(ascvd) * 10 ELSE 2000
        [] outcomeType \in {"stroke_any", "stroke_disabling", "stroke"} ->
             IF Flag(patientData_, "afib") /\ Obj(calculatedRisks_, "chadsvasc")
             THEN The(calculatedRisks_.chadsvasc).annualStrokeRisk * 100
             ELSE IF ascvd # {} THEN The(ascvd) * 3 ELSE 500
        [] outcomeType \in {"mi_nonfatal", "mi_fatal", "mi"} ->
             IF ascvd # {} THEN The(ascvd) * 5 ELSE 1000
        [] outcomeType \in {"death", "all_cause_mortality", "mortality"} ->
             IF hfref
             THEN IF Obj(calculatedRisks_, "seattleHF")
                     /\ Num(The(calculatedRisks_.seattleHF), "survival1yr")
                  THEN (100 - The(calculatedRisks_.seattleHF).survival1yr) * 1000
                  ELSE 15000
             ELSE LET ageMortality == (40 :> 200) @@ (50 :> 400) @@ (60 :> 1000)
                                      @@ (70 :> 2000) @@ (80 :> 5000) @@ (90 :> 15000)
                      age == NumOr(patientData_, "age", 65)
                      ageKey == Min(90, Max(40, (age \div 10) * 10))
                  IN  ageMortality[ageKey]
        [] outcomeType \in {"hf_hospitalization", "heart_failure_hospitalization",
                            "hospitalization"} ->
             IF hfref THEN 25000
             ELSE IF Flag(patientData_, "chfHistory") THEN 15000 ELSE 1000
        [] outcomeType = "cv_death_hf_hosp" -> IF hfref THEN 35000 ELSE 5000
        [] outcomeType \in {"kidney_progression", "eskd_dialysis", "esrd"} ->
             IF Obj(calculatedRisks_, "egfr")
             THEN LET egfr == The(calculatedRisks_.egfr).egfr
                  IN  IF egfr < 30 THEN 10000
                      ELSE IF egfr < 45 THEN 5000
                      ELSE IF egfr < 60 THEN 2000 ELSE 500
             ELSE 500
        [] outcomeType \in {"blindness", "amputation"} ->
             IF diabetic THEN 500 + NumOr(patientData_, "diabetesDuration", 5) * 100 ELSE 100
        [] OTHER -> 1000

\* harm names of the catalogue that contain the given word (String.prototype.includes)
HyperkalemiaHarms == {"hyperkalemia", "hyperkalemia_severe"}
HypoglycemiaHarms == {"severe_hypoglycemia", "severe_hypoglycemia_elderly"}
BleedingHarms == {"bleeding", "major_bleeding", "intracranial_bleeding", "gi_bleeding"}

\* mutant: the adjusted NNH has no floor
adjustNnhForPatientUnfloored(baseNnh, harmType, patientData_, calculatedRisks_) ==
  LET hasEgfr == Obj(calculatedRisks_, "egfr")
      egfr == IF hasEgfr THEN The(calculatedRisks_.egfr).egfr ELSE 0
      hyperkalemia == harmType \in HyperkalemiaHarms
      hypoglycemia == harmType \in HypoglycemiaHarms
      n0 == baseNnh * 100
      k == ScaleIf(hyperkalemia /\ hasEgfr /\ egfr < 60, n0,
                   IF egfr < 30 THEN 30 ELSE IF egfr < 45 THEN 50 ELSE 70)
      n1 == ScaleIf(hyperkalemia /\ Has(patientData_, "diabetesStatus")
                      /\ patientData_.diabetesStatus # "", k, 80)
      n2 == ScaleIf(harmType = "aki" /\ hasEgfr /\ egfr < 45, n1,
                    IF egfr < 30 THEN 40 ELSE 60)
      a == ScaleIf(hypoglycemia /\ GE(patientData_, "age", 75), n2, 60)
      n3 == ScaleIf(hypoglycemia /\ hasEgfr /\ egfr < 45, a, 70)
      n4 == ScaleIf(harmType = "new_onset_diabetes" /\ Num(patientData_, "a1c")
                      /\ patientData_.a1c >= 57 /\ patientData_.a1c < 65, n3, 50)
  IN  n4

\* baseNnh a whole number; the result is in hundredths
adjustNnhForPatient(baseNnh, harmType, patientData_, calculatedRisks_) ==
  LET hasEgfr == Obj(calculatedRisks_, "egfr")
      egfr == IF hasEgfr THEN The(calculatedRisks_.egfr).egfr ELSE 0
      hyperkalemia == harmType \in HyperkalemiaHarms
      hypoglycemia == harmType \in HypoglycemiaHarms
      n0 == baseNnh * 100
      k == ScaleIf(hyperkalemia /\ hasEgfr /\ egfr < 60, n0,
                   IF egfr < 30 THEN 30 ELSE IF egfr < 45 THEN 50 ELSE 70)
      n1 == ScaleIf(hyperkalemia /\ Has(patientData_, "diabetesStatus")
                      /\ patientData_.diabetesStatus # "", k, 80)
      n2 == ScaleIf(harmType = "aki" /\ hasEgfr /\ egfr < 45, n1,
                    IF egfr < 30 THEN 40 ELSE 60)
      a == ScaleIf(hypoglycemia /\ GE(patientData_, "age", 75), n2, 60)
      n3 == ScaleIf(hypoglycemia /\ hasEgfr /\ egfr < 45, a, 70)
      n4 == ScaleIf(harmType = "new_onset_diabetes" /\ Num(patientData_, "a1c")
                      /\ patientData_.a1c >= 57 /\ patientData_.a1c < 65, n3, 50)
  IN  Max(n4, 500)

(***************************************************************************)
(* checkIndicationApplies                                                  *)
(***************************************************************************)
checkIndicationApplies(indication, patientData_, calculatedRisks_) ==
  LET P(f) == Flag(patientData_, f)
      diabetic == Is(patientData_, "diabetesStatus", "type2")
                  \/ Is(patientData_, "diabetesStatus", "type1")
      type2 == Is(patientData_, "diabetesStatus", "type2")
      efBelow(k) == Num(patientData_, "ef") /\ patientData_.ef < k
      egfrBelow60 == Obj(calculatedRisks_, "egfr") /\ The(calculatedRisks_.egfr).egfr < 60
      albuminuria == Num(patientData_, "uacr") /\ patientData_.uacr > 30
  IN  CASE indication \in {"heart_failure", "heart_failure_symptoms"} ->
             efBelow(50) \/ GE(patientData_, "nyha", 1) \/ P("chfHistory")
        [] indication = "heart_failure_severe" -> efBelow(30) \/ GE(patientData_, "nyha", 3)
        [] indication \in {"afib_stroke_prevention", "afib_rate_control"} -> P("afib")
        [] indication \in {"diabetes", "diabetes_cv", "diabetes_glycemic"} -> diabetic
        [] indication = "diabetes_with_cvd" ->
             diabetic /\ (P("priorMI") \/ P("priorStroke") \/ P("pvd"))
        [] indication \in {"secondary_prevention", "post_mi", "hyperlipidemia",
                           "secondary_prevention_addon"} ->
             P("priorMI") \/ P("priorStroke") \/ P("pvd")
        [] indication = "post_mi_with_lv_dysfunction" -> P("priorMI") /\ efBelow(40)
        [] indication = "primary_prevention_high_risk" ->
             ~P("priorMI") /\ ~P("priorStroke") /\ Obj(calculatedRisks_, "ascvd")
             /\ ascvdRisk(calculatedRisks_) # {} /\ The(ascvdRisk(calculatedRisks_)) >= 75
        [] indication \in {"primary_prevention", "primary_prevention_low_risk"} ->
             ~P("priorMI") /\ ~P("priorStroke")
        [] indication = "ckd" -> egfrBelow60 \/ albuminuria
        [] indication = "diabetic_nephropathy" -> diabetic /\ egfrBelow60
        [] indication = "hypertension" -> P("htnTreatment") \/ GE(patientData_, "systolicBP", 130)
        [] indication \in {"acs", "stroke_secondary_prevention"} -> P("priorMI") \/ P("priorStroke")
        [] indication = "mechanical_valve" -> P("mechanicalValve")
        [] indication \in {"osteoporosis", "osteoporosis_severe"} ->
             P("osteoporosis") \/ (GE(patientData_, "age", 65) /\ Is(patientData_, "sex", "female"))
             \/ GE(patientData_, "age", 75)
        [] indication \in {"gout", "gout_flare_treatment"} -> P("gout")
        [] indication \in {"cv_prevention", "stable_cad", "stable_cad_pad"} -> P("priorMI") \/ P("pvd")
        [] indication = "pad" -> P("pvd")
        [] indication = "asthma" -> P("asthma")
        [] indication = "copd" -> P("copd")
        [] indication \in {"gerd", "peptic_ulcer", "gi_bleed_prevention"} ->
             P("antiplatelet") /\ (P("priorMI") \/ P("priorStroke"))
        [] indication = "cv_prevention_high_tg" ->
             GE(patientData_, "triglycerides", 150) /\ (P("priorMI") \/ P("priorStroke") \/ type2)
        [] indication = "diabetic_kidney_disease" -> type2 /\ (egfrBelow60 \/ albuminuria)
        [] indication = "neuropathic_pain" ->
             P("neuropathy") \/ (type2 /\ GE(patientData_, "diabetesDuration", 5))
        [] indication = "fibromyalgia" -> P("fibromyalgia")
        [] indication \in {"depression", "anxiety"} -> P("depression")
        [] indication = "hypothyroidism" -> P("hypothyroidism")
        [] indication \in {"vitamin_d_deficiency", "osteoporosis_adjunct", "fall_prevention"} ->
             P("osteoporosis") \/ GE(patientData_, "age", 65)
        [] indication = "edema" -> P("chfHistory") \/ efBelow(50)
        [] indication = "angina" -> P("priorMI") \/ P("stableAngina")
        [] indication = "vte_treatment" -> P("vte")
        [] indication = "seizures" -> P("seizures")
        [] indication = "obesity" ->
             Num(patientData_, "weight") /\ Num(patientData_, "height")
             /\ patientData_.weight * 10000 >= 30 * patientData_.height * patientData_.height
        [] indication = "resistant_hypertension" ->
             P("htnTreatment") /\ GE(patientData_, "systolicBP", 140)
        [] OTHER -> FALSE

(***************************************************************************)
(* calculateNetBenefit                                                     *)
(***************************************************************************)
\* Math.round(x * 1000) / 1000: from 1e-6 to thousandths, halves rounded up
Round3(x) == (x + 500) \div 1000

\* Math.round(a / b) for a >= 0 and b > 0
RoundDiv(a, b) == (2 * a + b) \div (2 * b)

\* mutant: the engine keeps one results object and every call accumulates into it
StaleResults(medication_) == results

\* the results object as constructed on entry
InitialResults(medication_) ==
  [medicationClass |-> medication_.class,
   benefits |-> <<>>, harms |-> <<>>,
   totalBenefit |-> 0, totalHarm |-> 0,
   burdenPenalty |-> 0, burdenLevel |-> "", netBenefit |-> 0,
   nntEquivalent |-> {}, recommendation |-> "",
   applicableIndications |-> <<>>,
   beersWarning |-> {}, elderlyCaution |-> {},
   estimatedLifeExpectancy |-> 0, gocThreshold |-> {}]

\* results.benefits.push(entry); results.totalBenefit += entry.expectedBenefit
PushBenefit(res, entry) ==
  [res EXCEPT !.benefits = Append(@, entry), !.totalBenefit = @ + entry.expectedBenefit]

\* mutant: the entry is listed but not added to the total
PushHarmUncounted(res, entry) ==
  [res EXCEPT !.harms = Append(@, entry)]

\* results.harms.push(entry); results.totalHarm += entry.expectedHarm
PushHarm(res, entry) ==
  [res EXCEPT !.harms = Append(@, entry), !.totalHarm = @ + entry.expectedHarm]

\* mutant: a benefit equal to the floor is listed
PushBenefitIfAtLeast(res, entry, least) ==
  IF entry.expectedBenefit >= least THEN PushBenefit(res, entry) ELSE res

\* if (expectedBenefit > 0.001) { push }
PushBenefitIfAbove(res, entry, least) ==
  IF entry.expectedBenefit > least THEN PushBenefit(res, entry) ELSE res

\* if (expectedHarm > least) { push }
PushHarmIfAbove(res, entry, least) ==
  IF entry.expectedHarm > least THEN PushHarm(res, entry) ELSE res

\* the body of the loop over one indication's outcomes, for one outcome
OutcomeStep(res, indication, o, patientData_, calculatedRisks_, preferences_) ==
  IF ~Num(o, "rrr") /\ ~Num(o, "nnt") THEN res
  ELSE LET baselineRisk == getBaselineRisk(o.name, patientData_, calculatedRisks_)
           adjustmentFactor == getPatientAdjustmentFactor(patientData_)
           timeframe == NumOr(o, "timeframe", 10)
           lifeExpectancy == estimateLifeExpectancy(patientData_, calculatedRisks_)
           userTimeHorizon == NumOr(preferences_, "timeHorizon", 5)
           factor == getCompetingRiskFactor(timeframe, lifeExpectancy, userTimeHorizon)
           raw == IF Num(o, "nnt")
                  THEN calculateExpectedBenefit(o.nnt, 0, 0, o.name, timeframe)
                  ELSE calculateExpectedBenefit(0, baselineRisk, o.rrr * adjustmentFactor,
                                                o.name, 10)
           expectedBenefit == MulDiv(raw, factor.num, factor.den)
       IN  PushBenefitIfAbove(res, [outcome |-> o.name, indication |-> indication,
                                    baselineRisk |-> baselineRisk, timeframe |-> timeframe,
                                    severityWeight |-> Weight(o.name, 20),
                                    expectedBenefit |-> expectedBenefit], 1000)

RECURSIVE OutcomeLoop(_, _, _, _, _, _)
OutcomeLoop(res, indication, outcomes, patientData_, calculatedRisks_, preferences_) ==
  IF outcomes = <<>> THEN res
  ELSE OutcomeLoop(OutcomeStep(res, indication, Head(outcomes), patientData_,
                               calculatedRisks_, preferences_),
                   indication, Tail(outcomes), patientData_, calculatedRisks_, preferences_)

RECURSIVE BenefitLoop(_, _, _, _, _)
BenefitLoop(res, benefits, patientData_, calculatedRisks_, preferences_) ==
  IF benefits = <<>> THEN res
  ELSE LET b == Head(benefits)
           next == IF ~checkIndicationApplies(b.indication, patientData_, calculatedRisks_)
                   THEN res
                   ELSE OutcomeLoop([res EXCEPT !.applicableIndications = Append(@, b.indication)],
                                    b.indication, b.outcomes, patientData_, calculatedRisks_,
                                    preferences_)
       IN  BenefitLoop(next, Tail(benefits), patientData_, calculatedRisks_, preferences_)

\* catalogue classes that include 'Direct Oral Anticoagulant (DOAC)', 'Vitamin K
\* Antagonist' or 'Antiplatelet'; those that include 'Sulfonylurea'
BleedingMedClasses == {"Direct Oral Anticoagulant (DOAC)", "Vitamin K Antagonist",
                       "Antiplatelet", "Antiplatelet (P2Y12 Inhibitor)",
                       "Anticoagulant + Antiplatelet"}
HypoglycemiaMedClasses == {"Sulfonylurea"}

\* mutant: the class must equal one of the three names
isBleedingRiskMedExact(medication_) ==
  medication_.class \in {"Direct Oral Anticoagulant (DOAC)", "Vitamin K Antagonist",
                         "Antiplatelet"}

isBleedingRiskMed(medication_) == medication_.class \in BleedingMedClasses

\* harms derived from the HAS-BLED estimate (annualBleedRisk in tenths of a percent)
HasbledHarms(res, calculatedRisks_) ==
  LET hasbled == The(calculatedRisks_.hasbled)
      annualBleedRisk == NumOr(hasbled, "annualBleedRisk", 0)
      majorBleedSeverity == Weight("major_bleeding", 15)
      ichSeverity == Weight("intracranial_bleeding", 60)
      majorBleedHarm == annualBleedRisk * 850 * majorBleedSeverity
      ichHarm == annualBleedRisk * 120 * ichSeverity
      r1 == PushHarmIfAbove(res, [harm |-> "major_bleeding",
                                  nnh |-> IF annualBleedRisk > 0
                                          THEN RoundDiv(100000, annualBleedRisk) * 100 ELSE 0,
                                  timeframe |-> 10, severityWeight |-> majorBleedSeverity,
                                  expectedHarm |-> majorBleedHarm,
                                  source |-> "HAS-BLED score"], 1000)
  IN  PushHarmIfAbove(r1, [harm |-> "intracranial_bleeding",
                           nnh |-> IF annualBleedRisk > 0
                                   THEN RoundDiv(2500000, 3 * annualBleedRisk) * 100 ELSE 0,
                           timeframe |-> 10, severityWeight |-> ichSeverity,
                           expectedHarm |-> ichHarm, source |-> "HAS-BLED score"], 1000)

\* the body of the loop over the static harm map, for one harm
StaticHarmStep(res, h, medication_, patientData_, calculatedRisks_) ==
  IF isBleedingRiskMed(medication_) /\ h.name \in BleedingHarms THEN res
  ELSE IF ~Num(h, "nnh") THEN res
  ELSE LET adjustedNnh == adjustNnhForPatient(h.nnh, h.name, patientData_, calculatedRisks_)
           timeframe == NumOr(h, "timeframe", 10)
           expectedHarm == calculateExpectedHarm(adjustedNnh, h.name, timeframe)
       IN  PushHarmIfAbove(res, [harm |-> h.name, nnh |-> adjustedNnh, timeframe |-> timeframe,
                                 severityWeight |-> Weight(h.name, 5),
                                 expectedHarm |-> expectedHarm,
                                 source |-> IF Has(h, "source") THEN h.source
                                            ELSE "clinical trial"], 100)

RECURSIVE StaticHarmLoop(_, _, _, _, _)
StaticHarmLoop(res, harms, medication_, patientData_, calculatedRisks_) ==
  IF harms = <<>> THEN res
  ELSE StaticHarmLoop(StaticHarmStep(res, Head(harms), medication_, patientData_, calculatedRisks_),
                      Tail(harms), medication_, patientData_, calculatedRisks_)

\* mutant: the age multiplier applies from 65
HypoglycemiaHarmFrom65(res, medication_, patientData_, calculatedRisks_) ==
  IF medication_.class \notin HypoglycemiaMedClasses THEN res
  ELSE LET r0 == 20
           r1 == r0 * (IF GE(patientData_, "age", 65) THEN 2 ELSE 1)
           hypoRisk == ScaleIf(Obj(calculatedRisks_, "egfr")
                                 /\ The(calculatedRisks_.egfr).egfr < 45, r1, 150)
           hypoSeverity == Weight("severe_hypoglycemia", 5)
           hypoHarm == hypoRisk * hypoSeverity * 1000
       IN  PushHarmIfAbove(res, [harm |-> "severe_hypoglycemia",
                                 nnh |-> RoundDiv(1000, hypoRisk) * 100,
                                 timeframe |-> 10, severityWeight |-> hypoSeverity,
                                 expectedHarm |-> hypoHarm,
                                 source |-> "Patient-adjusted estimate"], 1000)

\* the synthesized hypoglycemia harm of sulfonylureas (hypoRisk in thousandths)
HypoglycemiaHarm(res, medication_, patientData_, calculatedRisks_) ==
  IF medication_.class \notin HypoglycemiaMedClasses THEN res
  ELSE LET r0 == 20
           r1 == r0 * (IF GE(patientData_, "age", 75) THEN 2 ELSE 1)
           hypoRisk == ScaleIf(Obj(calculatedRisks_, "egfr")
                                 /\ The(calculatedRisks_.egfr).egfr < 45, r1, 150)
           hypoSeverity == Weight("severe_hypoglycemia", 5)
           hypoHarm == hypoRisk * hypoSeverity * 1000
       IN  PushHarmIfAbove(res, [harm |-> "severe_hypoglycemia",
                                 nnh |-> RoundDiv(1000, hypoRisk) * 100,
                                 timeframe |-> 10, severityWeight |-> hypoSeverity,
                                 expectedHarm |-> hypoHarm,
                                 source |-> "Patient-adjusted estimate"], 1000)

HarmStage(res, medication_, patientData_, calculatedRisks_) ==
  LET r1 == IF isBleedingRiskMed(medication_) /\ Obj(calculatedRisks_, "hasbled")
            THEN HasbledHarms(res, calculatedRisks_)
            ELSE IF Has(medication_, "harms")
                 THEN StaticHarmLoop(res, medication_.harms, medication_, patientData_,
                                     calculatedRisks_)
                 ELSE res
  IN  HypoglycemiaHarm(r1, medication_, patientData_, calculatedRisks_)

\* burdenLevel after the pill-burden adjustment
BurdenLevel(medication_, preferences_) ==
  LET burdenLevel == IF Has(medication_, "burden") THEN medication_.burden ELSE "moderate"
  IN  IF Is(preferences_, "pillBurdenTolerance", "low")
      THEN (IF burdenLevel = "low" THEN "moderate"
            ELSE IF burdenLevel = "moderate" THEN "high" ELSE "high")
      ELSE burdenLevel

\* mutant: the cost comparisons are inclusive
CostPenaltyInclusive(medication_, preferences_) ==
  IF Is(preferences_, "costSensitivity", "high") /\ GE(medication_, "annualCost", 2000)
  THEN 500
  ELSE IF Is(preferences_, "costSensitivity", "moderate") /\ GE(medication_, "annualCost", 5000)
       THEN 300
       ELSE 0

\* the cost penalty added to the burden penalty, in thousandths
CostPenalty(medication_, preferences_) ==
  IF Is(preferences_, "costSensitivity", "high") /\ GE(medication_, "annualCost", 2001)
  THEN 500
  ELSE IF Is(preferences_, "costSensitivity", "moderate") /\ GE(medication_, "annualCost", 5001)
       THEN 300
       ELSE 0

\* results.burdenPenalty = BURDEN_PENALTIES[burdenLevel] * 100 plus the cost penalty, in
\* thousandths (the table is in 1e-5)
BurdenPenalty(medication_, preferences_) ==
  (BURDEN_PENALTIES[BurdenLevel(medication_, preferences_)] * 100) \div 100
  + CostPenalty(medication_, preferences_)

\* mutant: a negative net score clamped to zero
NetBenefitClamped(totalBenefit, totalHarm) ==
  Max(0, Round3((totalBenefit - totalHarm) * 1000))

\* results.netBenefit from the two rounded totals, in thousandths
NetBenefit(totalBenefit, totalHarm) ==
  Round3((totalBenefit - totalHarm) * 1000)

\* results.nntEquivalent: null unless the net benefit is positive
NntEquivalent(netBenefit) ==
  IF netBenefit > 0 THEN {RoundDiv(100000, netBenefit)} ELSE {}

\* preferences.goalsOfCare || 3
GoalsOfCare(preferences_) == NumOr(preferences_, "goalsOfCare", 3)

\* results.gocThreshold = gocThresholds[goc], undefined for a goc outside the table
GocThreshold(goc) == IF goc \in DOMAIN gocThresholds THEN {gocThresholds[goc]} ELSE {}

\* mutant: a net score equal to the threshold does not meet it
MeetsThresholdStrict(netBenefit, goc) ==
  goc \in DOMAIN gocThresholds /\ netBenefit > gocThresholds[goc]

\* netBenefit >= threshold, false when gocThresholds has no entry for goc
MeetsThreshold(netBenefit, goc) ==
  goc \in DOMAIN gocThresholds /\ netBenefit >= gocThresholds[goc]

\* the conditions the recommendation cascade reads
isHighBurden(res) == res.burdenLevel = "high"
\* mutant: a cost of exactly 3000 counts as high
isHighCostFrom3000(medication_) == GE(medication_, "annualCost", 3000)
isHighCost(medication_) == GE(medication_, "annualCost", 3001)
hasBeersWarning(res) == res.beersWarning # {} /\ The(res.beersWarning).listed
\* mutant: the severity is compared with a value checkElderlySafety never produces
hasSevereElderlyWarning(res) ==
  res.elderlyCaution # {} /\ The(res.elderlyCaution).overallSeverity = "severe"

hasHighSeverityElderlyWarning(res) ==
  res.elderlyCaution # {} /\ The(res.elderlyCaution).overallSeverity = "high"
\* mutant: the frailty rule requires a Beers warning as well
shouldAvoidInFrailListed(res) ==
  hasBeersWarning(res) /\ res.elderlyCaution # {} /\ The(res.elderlyCaution).avoidRecommended

shouldAvoidInFrail(res) ==
  res.elderlyCaution # {} /\ The(res.elderlyCaution).avoidRecommended
\* mutant: the cascade uses the very-elderly cut-off
isVeryElderly(patientData_) == GE(patientData_, "age", 75)

isElderly(patientData_) == GE(patientData_, "age", 65)

\* the recommendation cascade; "TypeError" where gocNames[goc].toLowerCase() raises
Recommendation(res, medication_, patientData_, preferences_) ==
  LET goc == GoalsOfCare(preferences_)
      net == res.netBenefit
  IN  IF net < 0 THEN "not-recommended"
      ELSE IF shouldAvoidInFrail(res) THEN "caution-elderly"
      ELSE IF hasBeersWarning(res) /\ hasHighSeverityElderlyWarning(res) /\ isElderly(patientData_)
           THEN (IF MeetsThreshold(net, goc) /\ net >= 1000
                 THEN "caution-elderly" ELSE "not-recommended")
      ELSE IF hasBeersWarning(res) /\ isElderly(patientData_)
           THEN (IF MeetsThreshold(net, goc) THEN "caution-elderly" ELSE "marginal")
      ELSE IF MeetsThreshold(net, goc)
           THEN (IF net >= 3000 THEN "strongly-recommended"
                 ELSE IF hasHighSeverityElderlyWarning(res) /\ isElderly(patientData_)
                      THEN "consider"
                 ELSE IF isHighBurden(res) /\ goc <= 2 THEN "consider"
                 ELSE IF isHighCost(medication_) /\ Is(preferences_, "costSensitivity", "high")
                      THEN "consider"
                 ELSE "recommended")
      ELSE IF net > 0
           THEN (IF goc \in DOMAIN gocThresholds THEN "marginal" ELSE "TypeError")
      ELSE "not-recommended"

\* the object calculateNetBenefit returns; recommendation "TypeError" stands for the
\* exception raised instead of a return
ElderlyStage(res, elderlyCheck, lifeExpectancy) ==
  [res EXCEPT !.beersWarning = elderlyCheck.beersWarning,
              !.elderlyCaution = elderlyCheck.elderlyCaution,
              !.estimatedLifeExpectancy = lifeExpectancy]

BurdenStage(res, medication_, preferences_) ==
  [res EXCEPT !.burdenLevel = BurdenLevel(medication_, preferences_),
              !.burdenPenalty = BurdenPenalty(medication_, preferences_)]

NetStage(res) ==
  [res EXCEPT !.totalBenefit = Round3(res.totalBenefit),
              !.totalHarm = Round3(res.totalHarm),
              !.netBenefit = NetBenefit(Round3(res.totalBenefit), Round3(res.totalHarm)),
              !.nntEquivalent =
                 NntEquivalent(NetBenefit(Round3(res.totalBenefit), Round3(res.totalHarm)))]

RecommendationStage(res, medication_, patientData_, preferences_) ==
  [res EXCEPT !.recommendation = Recommendation(res, medication_, patientData_, preferences_)]

calculateNetBenefit(medication_, patientData_, calculatedRisks_, preferences_) ==
  LET r0 == ElderlyStage(InitialResults(medication_),
                         checkElderlySafety(medication_, patientData_),
                         estimateLifeExpectancy(patientData_, calculatedRisks_))
      r1 == BenefitLoop(r0, medication_.benefits, patientData_, calculatedRisks_, preferences_)
      r2 == HarmStage(r1, medication_, patientData_, calculatedRisks_)
      r3 == BurdenStage(r2, medication_, preferences_)
      r4 == NetStage(r3)
      r5 == [r4 EXCEPT !.gocThreshold = GocThreshold(GoalsOfCare(preferences_))]
  IN  RecommendationStage(r5, medication_, patientData_, preferences_)

(***************************************************************************)
(* RiskCalculators (src/unnamed/part_001).  creatinine is in hundredths of *)
(* mg/dL; annual risks are in tenths of a percent.                         *)
(***************************************************************************)
isDiabetic(patientData_) ==
  Is(patientData_, "diabetesStatus", "type2") \/ Is(patientData_, "diabetesStatus", "type1")

strokeRiskByScore ==
  (0 :> 2) @@ (1 :> 6) @@ (2 :> 22) @@ (3 :> 32) @@ (4 :> 48) @@ (5 :> 72) @@ (6 :> 97)
  @@ (7 :> 112) @@ (8 :> 108) @@ (9 :> 122)

\* 1 when the condition holds, else 0
Point(cond) == IF cond THEN 1 ELSE 0

\* mutant: both age tiers count for a patient of 75 or more
calculateCHADS2VAScBothTiers(patientData_) ==
  LET score ==
        Point(Flag(patientData_, "chfHistory") \/ LT(patientData_, "ef", 40))
        + Point(Flag(patientData_, "htnTreatment") \/ GE(patientData_, "systolicBP", 140))
        + 2 * Point(GE(patientData_, "age", 75)) + Point(GE(patientData_, "age", 65))
        + Point(isDiabetic(patientData_))
        + 2 * Point(Flag(patientData_, "priorStroke"))
        + Point(Flag(patientData_, "priorMI") \/ Flag(patientData_, "pvd"))
        + Point(Is(patientData_, "sex", "female"))
  IN  [score |-> score, annualStrokeRisk |-> strokeRiskByScore[Min(score, 9)]]

calculateCHADS2VASc(patientData_) ==
  LET score ==
        Point(Flag(patientData_, "chfHistory") \/ LT(patientData_, "ef", 40))
        + Point(Flag(patientData_, "htnTreatment") \/ GE(patientData_, "systolicBP", 140))
        + (IF GE(patientData_, "age", 75) THEN 2
           ELSE IF GE(patientData_, "age", 65) THEN 1 ELSE 0)
        + Point(isDiabetic(patientData_))
        + 2 * Point(Flag(patientData_, "priorStroke"))
        + Point(Flag(patientData_, "priorMI") \/ Flag(patientData_, "pvd"))
        + Point(Is(patientData_, "sex", "female"))
  IN  [score |-> score, annualStrokeRisk |-> strokeRiskByScore[Min(score, 9)]]

bleedRiskByScore ==
  (0 :> 11) @@ (1 :> 10) @@ (2 :> 19) @@ (3 :> 37) @@ (4 :> 87) @@ (5 :> 125)

\* mutant: the score itself is capped at 5
calculateHASBLEDCapped(patientData_) ==
  LET score ==
        Point(GE(patientData_, "systolicBP", 161))
        + Point(GE(patientData_, "creatinine", 231) \/ LT(patientData_, "egfr", 30))
        + Point(Flag(patientData_, "liverDisease"))
        + Point(Flag(patientData_, "priorStroke"))
        + Point(Flag(patientData_, "priorBleed") \/ Flag(patientData_, "anemia"))
        + Point(GE(patientData_, "age", 66))
        + Point(Flag(patientData_, "nsaidUse") \/ Flag(patientData_, "antiplatelet"))
        + Point(Flag(patientData_, "alcohol"))
  IN  [score |-> Min(score, 5), annualBleedRisk |-> bleedRiskByScore[Min(score, 5)]]

calculateHASBLED(patientData_) ==
  LET score ==
        Point(GE(patientData_, "systolicBP", 161))
        + Point(GE(patientData_, "creatinine", 231) \/ LT(patientData_, "egfr", 30))
        + Point(Flag(patientData_, "liverDisease"))
        + Point(Flag(patientData_, "priorStroke"))
        + Point(Flag(patientData_, "priorBleed") \/ Flag(patientData_, "anemia"))
        + Point(GE(patientData_, "age", 66))
        + Point(Flag(patientData_, "nsaidUse") \/ Flag(patientData_, "antiplatelet"))
        + Point(Flag(patientData_, "alcohol"))
  IN  [score |-> score, annualBleedRisk |-> bleedRiskByScore[Min(score, 5)]]

\* floor(a * b / 10^6) without leaving 32-bit integers, for a < 10^6 and b < 3 * 10^6
MulMillionths(a, b) == (a * (b \div 1000) + (a * (b % 1000)) \div 1000) \div 1000

\* Math.pow(scr_k, alpha) and Math.pow(scr_k, -1.200) with scr_k = cr / kappa, in
\* millionths, for kappa 0.7 (alpha -0.241) and 0.9 (alpha -0.302) and the creatinine
\* values of the modelled patients
ScrPower(kappa, cr) ==
  IF cr <= kappa
  THEN IF kappa = 70 THEN CASE cr = 70 -> 1000000
       ELSE CASE cr = 70 -> 1078851 [] cr = 80 -> 1036211
  ELSE IF kappa = 70
       THEN CASE cr = 80 -> 851941 [] cr = 100 -> 651805 [] cr = 120 -> 523721 [] cr = 150 -> 400690 [] cr = 200 -> 283715 [] cr = 400 -> 123494
       ELSE CASE cr = 100 -> 881234 [] cr = 120 -> 708066 [] cr = 150 -> 541728 [] cr = 200 -> 383579 [] cr = 400 -> 166963

\* Math.pow(0.9938, age), in millionths
SquareMillionths(x) == MulMillionths(x, x)

RECURSIVE AgeDecay(_)
AgeDecay(age) ==
  IF age = 0 THEN 1000000
  ELSE MulMillionths(SquareMillionths(AgeDecay(age \div 2)), IF age % 2 = 1 THEN 993800 ELSE 1000000)

\* the stage of an eGFR in thousandths
egfrStage(egfr) ==
  IF egfr >= 90000 THEN "G1 (Normal)"
  ELSE IF egfr >= 60000 THEN "G2 (Mild)"
  ELSE IF egfr >= 45000 THEN "G3a (Mild-Mod)"
  ELSE IF egfr >= 30000 THEN "G3b (Mod-Severe)"
  ELSE IF egfr >= 15000 THEN "G4 (Severe)"
  ELSE "G5 (Kidney Failure)"

\* the object calculateEGFR returns for an eGFR in thousandths
EgfrResult(egfr) == [egfr |-> (egfr + 500) \div 1000, stage |-> egfrStage(egfr)]

\* CKD-EPI 2021; null is {}
calculateEGFR(patientData_) ==
  IF ~Num(patientData_, "creatinine") \/ ~Num(patientData_, "age") THEN {}
  ELSE LET isFemale == Is(patientData_, "sex", "female")
           kappa == IF isFemale THEN 70 ELSE 90
           egfr == MulMillionths(MulMillionths(142000, ScrPower(kappa, patientData_.creatinine)),
                                 AgeDecay(patientData_.age))
       IN  {EgfrResult((egfr * (IF isFemale THEN 1012 ELSE 1000)) \div 1000)}

\* the total cholesterol / HDL ratio, in thousandths
tcHdlRatio(patientData_) == (patientData_.totalCholesterol * 1000) \div patientData_.hdl

\* the sigmoid 1 / (1 + Math.exp(-0.15 * (baseRisk - 10))) * 30 after toFixed(1): entry k
\* is the least baseRisk, in thousandths, whose risk prints as (5 + k) tenths of a percent
sigmoidSteps ==
  << -16536, -15400, -14423, -13566, -12802, -12111, -11482, -10903, -10366, -9867, -9399, -8959,
     -8543, -8149, -7774, -7417, -7075, -6748, -6434, -6132, -5841, -5561, -5289, -5027,
     -4772, -4525, -4285, -4052, -3825, -3604, -3388, -3178, -2972, -2771, -2575, -2383,
     -2194, -2010, -1829, -1651, -1477, -1306, -1137, -972, -809, -649, -492, -337,
     -184, -33, 115, 261, 406, 548, 689, 828, 965, 1100, 1234, 1367,
     1498, 1627, 1755, 1882, 2008, 2132, 2255, 2377, 2497, 2617, 2736, 2853,
     2970, 3085, 3200, 3313, 3426, 3538, 3649, 3759, 3869, 3977, 4085, 4192,
     4299, 4405, 4510, 4614, 4718, 4822, 4924, 5026, 5128, 5229, 5329, 5429,
     5529, 5628, 5727, 5825, 5922, 6020, 6116, 6213, 6309, 6405, 6500, 6595,
     6690, 6784, 6878, 6972, 7065, 7158, 7251, 7344, 7436, 7528, 7620, 7712,
     7803, 7894, 7985, 8076, 8167, 8257, 8348, 8438, 8528, 8618, 8708, 8797,
     8887, 8976, 9066, 9155, 9244, 9333, 9422, 9511, 9600, 9689, 9778, 9867,
     9956, 10045, 10134, 10223, 10312, 10401, 10490, 10579, 10668, 10757, 10846, 10935,
     11025, 11114, 11204, 11293, 11383, 11473, 11563, 11653, 11744, 11834, 11925, 12016,
     12107, 12198, 12289, 12381, 12473, 12565, 12657, 12750, 12843, 12936, 13029, 13123,
     13217, 13311, 13406, 13501, 13596, 13692, 13788, 13885, 13981, 14079, 14176, 14274,
     14373, 14472, 14572, 14672, 14772, 14873, 14975, 15077, 15179, 15283, 15387, 15491,
     15596, 15702, 15809, 15916, 16024, 16132, 16242, 16352, 16463, 16575, 16688, 16801,
     16916, 17031, 17148, 17265, 17384, 17504, 17624, 17746, 17869, 17993, 18119, 18246,
     18374, 18503, 18634, 18767, 18901, 19036, 19173, 19312, 19453, 19595, 19740, 19886,
     20034, 20185, 20338, 20493, 20650, 20810, 20973, 21138, 21307, 21478, 21652, 21830,
     22011, 22195, 22384, 22576, 22772, 22973, 23179, 23389, 23605, 23826, 24053, 24286,
     24526, 24773, 25028, 25290, 25562, 25842, 26133, 26435, 26749, 27076, 27418, 27775,
     28150, 28544, 28960, 29400, 29868, 30367, 30904, 31483, 32112, 32803, 33567, 34424,
     35401, 36537, 37898, 39596, 41861, 45289, 52636 >>

\* the object calculateASCVDRisk returns for a baseRisk in thousandths; risk is in
\* tenths of a percent, clamped to 0.5 .. 50
AscvdResult(baseRisk) ==
  [risk |-> Max(5, Min(5 + Cardinality({ k \in 1..Len(sigmoidSteps) : baseRisk >= sigmoidSteps[k] }), 500)),
   interpretation |-> IF baseRisk < -729 THEN "Low risk (<5%)"
                      ELSE IF baseRisk < 2676 THEN "Borderline risk (5-7.5%)"
                      ELSE IF baseRisk < 14621 THEN "Intermediate risk (7.5-20%)"
                      ELSE "High risk (>=20%)"]

\* an object field holding null is left out of the record
calculateASCVDRisk(patientData_) ==
  IF \/ ~Num(patientData_, "age") \/ ~Num(patientData_, "totalCholesterol")
     \/ ~Num(patientData_, "hdl") \/ ~Num(patientData_, "systolicBP")
     \/ ~Has(patientData_, "sex")
  THEN [interpretation |-> "Insufficient data"]
  ELSE LET isMale == Is(patientData_, "sex", "male")
           isBlack == Is(patientData_, "race", "black")
           baseRisk ==
             (patientData_.age - 40) * (IF isMale THEN 800 ELSE 500)
             + ((tcHdlRatio(patientData_) - 4000) * 3) \div 2
             + (patientData_.systolicBP - 120) * (IF Flag(patientData_, "htnTreatment") THEN 80 ELSE 50)
             + (IF Flag(patientData_, "smoker") THEN 4000 ELSE 0)
             + (IF isDiabetic(patientData_) THEN (IF isMale THEN 3000 ELSE 5000) ELSE 0)
       IN  AscvdResult((baseRisk * (IF isBlack THEN (IF isMale THEN 11 ELSE 13) ELSE 10)) \div 10)

\* weight / (height / 100)^2 >= 30
isObese(patientData_) ==
  /\ Num(patientData_, "weight") /\ Num(patientData_, "height")
  /\ patientData_.weight * 10000 >= 30 * patientData_.height * patientData_.height

\* the object calculateHFRisk returns for a number of points; risk in tenths of a percent
HfRiskResult(points) == [points |-> points, risk |-> Min(points * 15, 400)]

calculateHFRisk(patientData_) ==
  IF ~Num(patientData_, "age") THEN Empty
  ELSE HfRiskResult(
         ((patientData_.age - 45) \div 5) * 2
         + 2 * Point(Flag(patientData_, "htnTreatment") \/ GE(patientData_, "systolicBP", 140))
         + 3 * Point(isDiabetic(patientData_))
         + 4 * Point(Flag(patientData_, "priorMI"))
         + 3 * Point(Num(patientData_, "ef") /\ patientData_.ef < 50)
         + 2 * Point(isObese(patientData_)))

\* Math.min(Math.max(x, 1), cap).toFixed(1) for x in thousandths, in tenths
ClampTenths(x, cap) == (Min(Max(x, 1000), cap * 1000) + 50) \div 100

\* a1c is in tenths of a percent; chdRisk and strokeRisk are in tenths of a percent
calculateUKPDSRisk(patientData_) ==
  IF ~isDiabetic(patientData_) THEN Empty
  ELSE LET age == NumOr(patientData_, "age", 60)
           duration == NumOr(patientData_, "diabetesDuration", 5)
           a1c == NumOr(patientData_, "a1c", 75)
           sbp == NumOr(patientData_, "systolicBP", 135)
           ratio == IF Num(patientData_, "totalCholesterol") /\ Num(patientData_, "hdl")
                    THEN tcHdlRatio(patientData_) ELSE 5000
           chdRisk == 5000 + (age - 50) * 300 + duration * 500 + (a1c - 65) * 200
                      + (sbp - 120) * 100 + ((ratio - 4000) * 3) \div 2
           strokeRisk == 3000 + (age - 50) * 200 + duration * 300 + (sbp - 120) * 80
       IN  [chdRisk |->
              ClampTenths((((chdRisk * (IF Flag(patientData_, "smoker") THEN 15 ELSE 10)) \div 10)
                           * (IF Is(patientData_, "sex", "male") THEN 12 ELSE 10)) \div 10, 50),
            strokeRisk |->
              ClampTenths(strokeRisk * (IF Flag(patientData_, "afib") THEN 2 ELSE 1), 30)]

\* nyha is the parsed class, 0 when the field is absent or not a number; survival1yr is
\* in percent after toFixed(0); the powers of the survival and potentialGDMTBenefit,
\* which nothing reads, are left out
calculateSeattleHFSurvival(patientData_) ==
  IF ~Num(patientData_, "ef") \/ patientData_.ef >= 50
  THEN [interpretation |-> "Not applicable (EF >=50% or unknown)"]
  ELSE LET riskScore ==
             (NumOr(patientData_, "age", 65) - 60) * 200
             + (40 - patientData_.ef) * 200
             + (NumOr(patientData_, "nyha", 2) - 2) * 1500
             - (NumOr(patientData_, "systolicBP", 110) - 100) * 50
             + (NumOr(patientData_, "creatinine", 120) - 100) * 10
             + (IF Is(patientData_, "diabetesStatus", "type2") THEN 1000 ELSE 0)
             + (IF Flag(patientData_, "afib") THEN 500 ELSE 0)
       IN  [survival1yr |-> (Max(4000, Min(9500, 9000 - riskScore)) + 50) \div 100]

\* mutant: the ascvd entry is omitted when the ASCVD inputs are incomplete
calculateAllRisksOmitting(patientData_) ==
  (IF Has(calculateASCVDRisk(patientData_), "risk")
   THEN "ascvd" :> {calculateASCVDRisk(patientData_)} ELSE Empty)
  @@ (IF Flag(patientData_, "afib")
      THEN [chadsvasc |-> {calculateCHADS2VASc(patientData_)},
            hasbled |-> {calculateHASBLED(patientData_)}]
      ELSE Empty)
  @@ (IF (Num(patientData_, "ef") /\ patientData_.ef < 50) \/ GE(patientData_, "nyha", 1)
      THEN [seattleHF |-> {calculateSeattleHFSurvival(patientData_)},
            hfRisk |-> {calculateHFRisk(patientData_)}]
      ELSE Empty)
  @@ (IF isDiabetic(patientData_) THEN "ukpds" :> {calculateUKPDSRisk(patientData_)} ELSE Empty)
  @@ (IF Num(patientData_, "creatinine") THEN "egfr" :> calculateEGFR(patientData_) ELSE Empty)

\* an entry holding null is the empty option {}
calculateAllRisks(patientData_) ==
  ("ascvd" :> {calculateASCVDRisk(patientData_)})
  @@ (IF Flag(patientData_, "afib")
      THEN [chadsvasc |-> {calculateCHADS2VASc(patientData_)},
            hasbled |-> {calculateHASBLED(patientData_)}]
      ELSE Empty)
  @@ (IF (Num(patientData_, "ef") /\ patientData_.ef < 50) \/ GE(patientData_, "nyha", 1)
      THEN [seattleHF |-> {calculateSeattleHFSurvival(patientData_)},
            hfRisk |-> {calculateHFRisk(patientData_)}]
      ELSE Empty)
  @@ (IF isDiabetic(patientData_) THEN "ukpds" :> {calculateUKPDSRisk(patientData_)} ELSE Empty)
  @@ (IF Num(patientData_, "creatinine") THEN "egfr" :> calculateEGFR(patientData_) ELSE Empty)

(***************************************************************************)
(* Inputs                                                                  *)
(***************************************************************************)
MaxGoalsOfCare == 5
MaxAgeSteps == 2
MaxEvaluations == 3

\* a field that may be absent: v = "" (strings) or 0 (numbers) or FALSE leaves it out
OptS(f, v) == IF v = "" THEN Empty ELSE f :> v
OptN(f, v) == IF v = 0 THEN Empty ELSE f :> v
OptB(f, v) == IF v THEN f :> TRUE ELSE Empty

NntOutcome(name, nnt, timeframe) == [name |-> name, nnt |-> nnt, timeframe |-> timeframe]
RrrOutcome(name, rrr, timeframe) == [name |-> name, rrr |-> rrr, timeframe |-> timeframe]
Indication(indication, outcomes) == [indication |-> indication, outcomes |-> outcomes]

\* benefit maps of one always-applicable indication whose single outcome is worth
\* 0, 0.2, 0.3, 1.0, 2.0, 3.0 and 3.704 (100/27) per 100 patients per year
BenefitProfiles ==
  { <<Indication("primary_prevention", <<o>>)>> :
      o \in { RrrOutcome("mortality", 0, 50),
              NntOutcome("mortality", 500, 10),
              NntOutcome("thromboembolism", 100, 10),
              NntOutcome("mortality", 100, 10),
              NntOutcome("mortality", 50, 10),
              NntOutcome("thromboembolism", 10, 10),
              NntOutcome("mortality", 9, 30) } }

\* harm maps: none, or one harm worth 0.5
HarmProfiles == { <<>>, <<[name |-> "aki", nnh |-> 20, timeframe |-> 10]>> }

BeersChoices == { Empty, "beers_criteria" :> [listed |-> TRUE, strength |-> "strong"] }

CautionChoices ==
  { Empty,
    "elderly_caution" :> [fall_risk |-> TRUE],
    "elderly_caution" :> [avoid_if_frail |-> TRUE],
    "elderly_caution" :> [narrow_therapeutic_window |-> TRUE] }

Ages == { 60 + 10 * k : k \in 0..MaxAgeSteps }

\* patients that differ in age (possibly absent) and frailty
CascadePatients ==
  { OptN("age", a) @@ OptB("frailty", f) : a \in {0} \cup Ages, f \in BOOLEAN }

\* goalsOfCare absent, the four documented tiers, and values outside them
GoalsChoices == 0..MaxGoalsOfCare

\* every combination of net score, safety metadata, patient age and frailty, goals of
\* care, burden and cost that the recommendation cascade reads
CascadeInputs ==
  { [medication |-> [class |-> "Generic", benefits |-> b, harms |-> h, burden |-> bu,
                     annualCost |-> c.cost] @@ be @@ ca,
     patientData |-> p,
     calculatedRisks |-> Empty,
     preferences |-> OptN("goalsOfCare", g) @@ OptS("costSensitivity", c.sens)] :
      b \in BenefitProfiles, h \in HarmProfiles, be \in BeersChoices, ca \in CautionChoices,
      p \in CascadePatients, g \in GoalsChoices, bu \in {"moderate", "high"},
      c \in { [cost |-> 48, sens |-> ""], [cost |-> 3500, sens |-> "high"] } }

\* every combination of burden tier, pill-burden tolerance, cost sensitivity and cost
BurdenInputs ==
  { [medication |-> [class |-> "Generic",
                     benefits |-> <<Indication("primary_prevention",
                                               <<NntOutcome("mortality", 50, 10)>>)>>]
                    @@ OptS("burden", bu) @@ OptN("annualCost", c),
     patientData |-> [age |-> 60],
     calculatedRisks |-> Empty,
     preferences |-> OptN("goalsOfCare", g) @@ OptS("pillBurdenTolerance", t)
                     @@ OptS("costSensitivity", s)] :
      bu \in {"", "low", "moderate", "high"}, t \in {"", "low", "moderate", "high"},
      s \in {"", "low", "moderate", "high"}, c \in {0, 48, 2000, 2400, 3000, 3500, 5000, 5500},
      g \in {0, 2} }

\* records of the medication catalogue (src/medications-database.js)
carvedilol ==
  [class |-> "Beta-blocker",
   benefits |-> <<Indication("heart_failure",
                    <<[name |-> "mortality", rrr |-> 35, nnt |-> 9, timeframe |-> 30],
                      [name |-> "hospitalization", rrr |-> 24, nnt |-> 14, timeframe |-> 10]>>),
                  Indication("post_mi",
                    <<[name |-> "mortality", rrr |-> 23, nnt |-> 42, timeframe |-> 20]>>)>>,
   harms |-> <<>>, burden |-> "moderate", annualCost |-> 48]

spironolactone ==
  [class |-> "Mineralocorticoid Receptor Antagonist (MRA)",
   benefits |-> <<Indication("heart_failure",
                    <<[name |-> "mortality", rrr |-> 30, nnt |-> 6, timeframe |-> 20],
                      [name |-> "hospitalization", rrr |-> 35, nnt |-> 8, timeframe |-> 20]>>)>>,
   harms |-> <<[name |-> "hyperkalemia_severe", nnh |-> 13, timeframe |-> 20,
                source |-> "Meta-analysis 2025"]>>,
   burden |-> "moderate", annualCost |-> 36]

apixaban ==
  [class |-> "Direct Oral Anticoagulant (DOAC)",
   benefits |-> <<Indication("afib_stroke_prevention",
                    <<[name |-> "stroke", rrr |-> 21, timeframe |-> 18]>>)>>,
   harms |-> <<[name |-> "major_bleeding", nnh |-> 50, timeframe |-> 10, source |-> "ARISTOTLE"],
               [name |-> "intracranial_bleeding", nnh |-> 333, timeframe |-> 10,
                source |-> "ARISTOTLE"]>>,
   burden |-> "low", annualCost |-> 5500]

glipizide ==
  [class |-> "Sulfonylurea",
   benefits |-> <<Indication("diabetes_glycemic", <<[name |-> "a1c_reduction"]>>),
                  Indication("diabetes_cv",
                    <<[name |-> "mortality", rrr |-> 0, timeframe |-> 50]>>)>>,
   harms |-> <<[name |-> "severe_hypoglycemia", nnh |-> 50, timeframe |-> 10,
                source |-> "Meta-analysis"],
               [name |-> "severe_hypoglycemia_elderly", nnh |-> 25, timeframe |-> 10,
                source |-> "Beers Criteria"]>>,
   burden |-> "moderate", annualCost |-> 36,
   beers_criteria |-> [listed |-> TRUE, strength |-> "strong"],
   elderly_caution |-> [hypoglycemia_risk |-> TRUE, avoid_if_frail |-> TRUE,
                        avoid_if_cognitive_impairment |-> TRUE]]

aspirin ==
  [class |-> "Antiplatelet",
   benefits |-> <<Indication("secondary_prevention",
                    <<[name |-> "mace", rrr |-> 20, nnt |-> 50, timeframe |-> 20],
                      [name |-> "stroke_recurrence", rrr |-> 22, nnt |-> 77, timeframe |-> 20]>>),
                  Indication("primary_prevention",
                    <<[name |-> "mace", rrr |-> 11, nnt |-> 250, timeframe |-> 50],
                      [name |-> "mortality", rrr |-> 0, timeframe |-> 50]>>)>>,
   harms |-> <<[name |-> "major_bleeding", nnh |-> 222, timeframe |-> 50, source |-> "JAMA"],
               [name |-> "intracranial_bleeding", nnh |-> 1000, timeframe |-> 50,
                source |-> "JAMA"],
               [name |-> "gi_bleeding", nnh |-> 400, timeframe |-> 10, source |-> "USPSTF"]>>,
   burden |-> "low", annualCost |-> 15]

warfarin ==
  [class |-> "Vitamin K Antagonist",
   benefits |-> <<Indication("afib_stroke_prevention",
                    <<[name |-> "stroke", rrr |-> 64, timeframe |-> 10]>>),
                  Indication("mechanical_valve",
                    <<[name |-> "thromboembolism", rrr |-> 75, nnt |-> 10, timeframe |-> 10]>>)>>,
   harms |-> <<[name |-> "major_bleeding", nnh |-> 33, timeframe |-> 10, source |-> "SPAF"],
               [name |-> "intracranial_bleeding", nnh |-> 125, timeframe |-> 10,
                source |-> "SPAF"]>>,
   burden |-> "high", annualCost |-> 60]

clopidogrel ==
  [class |-> "Antiplatelet (P2Y12 Inhibitor)",
   benefits |-> <<Indication("acs",
                    <<[name |-> "mace", rrr |-> 20, nnt |-> 46, timeframe |-> 10]>>),
                  Indication("stroke_secondary_prevention",
                    <<[name |-> "stroke_recurrence", rrr |-> 8, nnt |-> 91, timeframe |-> 20]>>)>>,
   harms |-> <<[name |-> "major_bleeding", nnh |-> 100, timeframe |-> 10, source |-> "CURE"]>>,
   burden |-> "low", annualCost |-> 24]

digoxin ==
  [class |-> "Cardiac Glycoside",
   benefits |-> <<Indication("heart_failure",
                    <<[name |-> "hospitalization", rrr |-> 28, nnt |-> 13, timeframe |-> 30],
                      [name |-> "mortality", rrr |-> 0, timeframe |-> 30]>>)>>,
   harms |-> <<[name |-> "toxicity", nnh |-> 50, timeframe |-> 20,
                source |-> "DIG trial, observational data"],
               [name |-> "arrhythmia", nnh |-> 100, timeframe |-> 20, source |-> "DIG trial"]>>,
   burden |-> "moderate", annualCost |-> 48,
   beers_criteria |-> [listed |-> TRUE, strength |-> "strong"],
   elderly_caution |-> [toxicity_risk |-> TRUE, requires_renal_adjustment |-> TRUE,
                        narrow_therapeutic_window |-> TRUE, avoid_if_frail |-> TRUE,
                        monitor_levels |-> TRUE]]

vitamin_d ==
  [class |-> "Supplement",
   benefits |-> <<Indication("deficiency_treatment", <<[name |-> "bone_health"]>>),
                  Indication("fall_prevention",
                    <<[name |-> "falls", rrr |-> 14, nnt |-> 100, timeframe |-> 10]>>)>>,
   harms |-> <<[name |-> "hypercalcemia", nnh |-> 5000, timeframe |-> 10,
                source |-> "With very high doses only"]>>,
   burden |-> "low", annualCost |-> 24]

CataloguePatients ==
  { Empty,
    [age |-> 70, sex |-> "male", ef |-> 30, chfHistory |-> TRUE],
    [age |-> 80, sex |-> "female", afib |-> TRUE, priorStroke |-> TRUE],
    [age |-> 80, diabetesStatus |-> "type2", frailty |-> TRUE],
    [age |-> 60, priorMI |-> TRUE, diabetesStatus |-> "type2", dementia |-> TRUE] }

\* sparse risk bundles: empty, with a null entry and a null risk, and complete
RiskBundles ==
  { Empty,
    [ascvd |-> {[interpretation |-> "Insufficient data"]}, egfr |-> {}, hasbled |-> {}],
    [ascvd |-> {[risk |-> 120]}, egfr |-> {[egfr |-> 40]},
     hasbled |-> {[score |-> 3, annualBleedRisk |-> 37]},
     chadsvasc |-> {[score |-> 4, annualStrokeRisk |-> 48]},
     seattleHF |-> {[survival1yr |-> 85]}] }

\* catalogue medications for patients with comorbidities, sparse risk bundles and
\* preferences with absent and undocumented values
CatalogueInputs ==
  { [medication |-> m, patientData |-> p, calculatedRisks |-> r,
     preferences |-> OptN("goalsOfCare", g) @@ OptN("timeHorizon", th)
                     @@ OptS("pillBurdenTolerance", pt.tol) @@ OptS("costSensitivity", pt.sens)] :
      m \in {carvedilol, spironolactone, apixaban, glipizide, aspirin}, p \in CataloguePatients,
      r \in RiskBundles, g \in {0, 1, 4, MaxGoalsOfCare}, th \in {0, 1, 10},
      pt \in { [tol |-> "", sens |-> ""], [tol |-> "low", sens |-> "high"],
               [tol |-> "generous", sens |-> "extreme"] } }

\* patients with atrial fibrillation and zero to eight HAS-BLED factors
BleedingPatients ==
  { [afib |-> TRUE, sex |-> "female"] @@ OptN("age", a) @@ OptN("systolicBP", sbp)
    @@ OptB("priorStroke", k >= 1) @@ OptB("priorBleed", k >= 2) @@ OptB("alcohol", k >= 3)
    @@ OptB("liverDisease", k >= 4) @@ OptB("nsaidUse", k >= 5)
    @@ OptN("creatinine", IF k >= 6 THEN 250 ELSE 0) :
      a \in {0, 60, 80}, sbp \in {0, 170}, k \in 0..6 }

\* medications of every bleeding-risk-bearing class, and two of other classes, for
\* patients whose risk bundle holds the HAS-BLED and CHA2DS2-VASc results
BleedingInputs ==
  { [medication |-> m, patientData |-> p,
     calculatedRisks |-> [hasbled |-> {calculateHASBLED(p)},
                          chadsvasc |-> {calculateCHADS2VASc(p)}],
     preferences |-> Empty] :
      m \in {apixaban, warfarin, clopidogrel, aspirin, spironolactone, glipizide},
      p \in BleedingPatients }

\* a sulfonylurea for patients around the age and eGFR cut-offs of the hypoglycemia
\* estimate
HypoglycemiaInputs ==
  { [medication |-> glipizide,
     patientData |-> [diabetesStatus |-> "type2"] @@ OptN("age", a),
     calculatedRisks |-> IF e = 0 THEN Empty ELSE [egfr |-> {[egfr |-> e]}],
     preferences |-> Empty] :
      a \in {0, 74, 75, 80}, e \in {0, 40, 44, 45} }

\* medications whose indications have a true predicate, a false one and none, with
\* benefits above, at and below the floor of 0.001
IndicationInputs ==
  { [medication |-> m, patientData |-> p, calculatedRisks |-> Empty,
     preferences |-> OptN("timeHorizon", th)] :
      m \in { vitamin_d, carvedilol,
              [class |-> "Generic",
               benefits |-> <<Indication("deficiency_treatment", <<NntOutcome("mortality", 9, 30)>>),
                              Indication("fall_prevention",
                                <<NntOutcome("falls", 1000, 50), NntOutcome("falls", 5000, 100),
                                  NntOutcome("falls", 100, 10)>>),
                              Indication("post_mi", <<NntOutcome("mortality", 42, 20)>>)>>,
               harms |-> <<>>, burden |-> "low", annualCost |-> 24] },
      p \in { Empty, [age |-> 60], [age |-> 70], [age |-> 60, osteoporosis |-> TRUE],
              [age |-> 70, priorMI |-> TRUE], [age |-> 60, ef |-> 45] },
      th \in {0, 1, 10} }

\* a medication whose first indication has an outcome with baseline risk 0 (atrial
\* fibrillation with a calculated stroke risk of 0), one with rrr 0, one with a negative
\* rrr and one without rrr, followed by a contributing outcome and a second indication
DegenerateInputs ==
  { [medication |->
       [class |-> "Generic",
        benefits |-> <<Indication("primary_prevention",
                         <<RrrOutcome("stroke", 20, 10), RrrOutcome("death", 0, 50),
                           RrrOutcome("mi", -10, 10), [name |-> "a1c_reduction"],
                           RrrOutcome("mortality", 10, 10)>>),
                       Indication("afib_stroke_prevention", <<NntOutcome("stroke_any", 50, 10)>>)>>,
        harms |-> <<>>, burden |-> "low", annualCost |-> 24],
     patientData |-> OptN("age", a) @@ OptB("afib", af) @@ OptB("dementia", d),
     calculatedRisks |-> IF s < 0 THEN Empty ELSE [chadsvasc |-> {[annualStrokeRisk |-> s]}],
     preferences |-> OptN("timeHorizon", th)] :
      a \in {0, 50, 70, 85}, af \in BOOLEAN, d \in BOOLEAN, s \in {-1, 0, 22},
      th \in {0, 1, 10} }

\* medications with a frailty contraindication for patients with heart failure or
\* diabetes who are frail or not, under every documented goals-of-care tier
FrailtyInputs ==
  { [medication |-> m,
     patientData |-> OptN("age", a) @@ OptB("frailty", f) @@ OptB("chfHistory", hf)
                     @@ OptS("diabetesStatus", dm),
     calculatedRisks |-> Empty,
     preferences |-> OptN("goalsOfCare", g)] :
      m \in {digoxin, glipizide}, a \in {0, 60, 70, 80}, f \in BOOLEAN, hf \in BOOLEAN,
      dm \in {"", "type2"}, g \in 0..4 }

\* a medication with every kind of adjusted harm, a harm outside the severity table, a
\* harm without NNH and one too small to list, for patients on either side of each
\* modifier's cut-off; a1c is in tenths of a percent
HarmInputs ==
  { [medication |->
       [class |-> "Generic", benefits |-> <<>>,
        harms |-> <<[name |-> "hyperkalemia", nnh |-> 13, timeframe |-> 20],
                    [name |-> "hyperkalemia_severe", nnh |-> 100, timeframe |-> 10,
                     source |-> "Meta-analysis 2025"],
                    [name |-> "aki", nnh |-> 20, timeframe |-> 10],
                    [name |-> "severe_hypoglycemia", nnh |-> 50, timeframe |-> 10],
                    [name |-> "new_onset_diabetes", nnh |-> 100, timeframe |-> 40],
                    [name |-> "rash", nnh |-> 6],
                    [name |-> "lactic_acidosis", timeframe |-> 10],
                    [name |-> "hypercalcemia", nnh |-> 5000, timeframe |-> 100]>>,
        burden |-> "low", annualCost |-> 24],
     patientData |-> OptN("age", a) @@ OptS("diabetesStatus", dm) @@ OptN("a1c", a1c),
     calculatedRisks |-> IF e = 0 THEN Empty ELSE [egfr |-> {[egfr |-> e]}],
     preferences |-> Empty] :
      a \in {0, 74, 75}, dm \in {"", "type2"}, a1c \in {0, 56, 57, 64, 65},
      e \in {0, 29, 30, 44, 45, 59, 60} }

Inputs ==
  CascadeInputs \cup BurdenInputs \cup CatalogueInputs \cup BleedingInputs
  \cup HypoglycemiaInputs \cup IndicationInputs \cup HarmInputs \cup DegenerateInputs
  \cup FrailtyInputs

(***************************************************************************)
(* The evaluation of one medication for one patient                        *)
(***************************************************************************)
\* the caller's variable before any evaluation has returned
NoResults ==
  [medicationClass |-> "", benefits |-> <<>>, harms |-> <<>>, totalBenefit |-> 0,
   totalHarm |-> 0, burdenPenalty |-> 0, burdenLevel |-> "", netBenefit |-> 0,
   nntEquivalent |-> {}, recommendation |-> "", applicableIndications |-> <<>>,
   beersWarning |-> {}, elderlyCaution |-> {}, estimatedLifeExpectancy |-> 0,
   gocThreshold |-> {}]

\* no helper function is being called on its own
NoCall == [fn |-> "none", args |-> <<>>]

Init ==
  /\ \E i \in Inputs :
        /\ medication = i.medication
        /\ patientData = i.patientData
        /\ calculatedRisks = i.calculatedRisks
        /\ preferences = i.preferences
  /\ results = NoResults
  /\ status = "idle"
  /\ remembered = {}
  /\ evaluations = 0
  /\ call = NoCall
  /\ ret = {}

\* results = BenefitEngine.calculateNetBenefit(medication, patientData, calculatedRisks,
\* preferences); when the call raises, results is the object as built up to that point
Completion(r) ==
  IF r.recommendation = "TypeError"
  THEN [results |-> [r EXCEPT !.recommendation = ""], status |-> "TypeError"]
  ELSE [results |-> r, status |-> "returned"]

Evaluate ==
  /\ status = "idle"
  /\ \E c \in {Completion(calculateNetBenefit(medication, patientData, calculatedRisks,
                                               preferences))} :
        /\ results' = c.results
        /\ status' = c.status
  /\ evaluations' = evaluations + 1
  /\ UNCHANGED <<medication, patientData, calculatedRisks, preferences, remembered, call, ret>>

Next == Evaluate

Spec == Init /\ [][Next]_vars

(***************************************************************************)
(* A sequence of evaluations by one caller                                 *)
(***************************************************************************)
\* the tuples a caller evaluates one after another: three catalogue medications, two
\* patients, goals of care absent or outside the table
DetInputs ==
  { [medication |-> m, patientData |-> p, calculatedRisks |-> Empty,
     preferences |-> OptN("goalsOfCare", g)] :
      m \in {spironolactone, glipizide, aspirin},
      p \in { Empty, [age |-> 70, sex |-> "male", ef |-> 30, chfHistory |-> TRUE] },
      g \in {0, MaxGoalsOfCare} }

CurrentInput ==
  [medication |-> medication, patientData |-> patientData,
   calculatedRisks |-> calculatedRisks, preferences |-> preferences]

InitDet ==
  /\ \E i \in DetInputs :
        /\ medication = i.medication
        /\ patientData = i.patientData
        /\ calculatedRisks = i.calculatedRisks
        /\ preferences = i.preferences
  /\ results = NoResults
  /\ status = "idle"
  /\ remembered = {}
  /\ evaluations = 0
  /\ call = NoCall
  /\ ret = {}

\* the caller keeps a copy of the arguments and of the result of the call that returned
Remember ==
  /\ status = "returned"
  /\ remembered = {}
  /\ remembered' = {[input |-> CurrentInput, output |-> results, at |-> evaluations]}
  /\ UNCHANGED <<medication, patientData, calculatedRisks, preferences, results, status,
                 evaluations, call, ret>>

\* the caller moves on to another tuple (the medication list is evaluated in a loop, and
\* again after every change of the patient or the preferences)
Supply ==
  /\ status # "idle"
  /\ evaluations < MaxEvaluations
  /\ \E i \in DetInputs :
        /\ medication' = i.medication
        /\ patientData' = i.patientData
        /\ calculatedRisks' = i.calculatedRisks
        /\ preferences' = i.preferences
  /\ status' = "idle"
  /\ UNCHANGED <<results, remembered, evaluations, call, ret>>

NextDet == Evaluate \/ Remember \/ Supply

SpecDet == InitDet /\ [][NextDet]_vars

(***************************************************************************)
(* Calls of the helper functions on their own                              *)
(***************************************************************************)
\* arguments of getCompetingRiskFactor: trial timeframes of 0.5 to 10 years, life
\* expectancies of 0.5 to 22 years, time horizons absent and 1 to 10 years
CompetingRiskCalls ==
  { [fn |-> "getCompetingRiskFactor", args |-> <<tf, le, h>>] :
      tf \in {5, 10, 18, 30, 50, 100}, le \in {500, 1000, 1500, 3000, 7500, 22000},
      h \in {0, 1, 2, 5, 10} }

\* arguments of calculateExpectedBenefit: NNT null (0) and 1 to 500, baseline risk and
\* RRR null or given, outcomes inside and outside the severity table, timeframes of 0.5
\* to 5 years
NntChoices == {0, 1, 6, 9, 10, 50, 250, 500}
BaselineChoices == {0, 1000, 15000}
RrrChoices == {0, 35}
ExpectedBenefitCalls ==
  { [fn |-> "calculateExpectedBenefit", args |-> <<nnt, b, r, o, tf>>] :
      nnt \in NntChoices, b \in BaselineChoices, r \in RrrChoices,
      o \in {"mortality", "hospitalization", "stroke", "quality_of_sleep"},
      tf \in {5, 10, 20, 30, 50} }

\* patients of calculateHASBLED: every factor absent, present, and on either side of
\* its cut-off
HasbledCalls ==
  { [fn |-> "calculateHASBLED",
     args |-> << OptN("systolicBP", sbp) @@ OptN("creatinine", cr) @@ OptN("egfr", e)
                 @@ OptB("liverDisease", liver) @@ OptB("priorStroke", stroke)
                 @@ OptB("priorBleed", bleed = 1) @@ OptB("anemia", bleed = 2)
                 @@ OptN("age", a) @@ OptB("nsaidUse", drug = 1)
                 @@ OptB("antiplatelet", drug = 2) @@ OptB("alcohol", alcohol) >>] :
      sbp \in {0, 160, 161}, cr \in {0, 230, 231}, e \in {0, 29, 30},
      liver \in BOOLEAN, stroke \in BOOLEAN, bleed \in 0..2, a \in {0, 65, 66},
      drug \in 0..2, alcohol \in BOOLEAN }

\* patients of calculateCHADS2VASc
ChadsvascCalls ==
  { [fn |-> "calculateCHADS2VASc",
     args |-> << OptB("chfHistory", hf = 1) @@ OptN("ef", IF hf = 2 THEN 39 ELSE IF hf = 3 THEN 40 ELSE 0)
                 @@ OptB("htnTreatment", htn = 1)
                 @@ OptN("systolicBP", IF htn = 2 THEN 139 ELSE IF htn = 3 THEN 140 ELSE 0)
                 @@ OptN("age", a) @@ OptS("diabetesStatus", dm)
                 @@ OptB("priorStroke", stroke) @@ OptB("priorMI", vasc = 1)
                 @@ OptB("pvd", vasc = 2) @@ OptS("sex", sex) >>] :
      hf \in 0..3, htn \in 0..3, a \in {0, 64, 65, 74, 75, 90},
      dm \in {"", "type1", "type2", "prediabetes"}, stroke \in BOOLEAN, vasc \in 0..2,
      sex \in {"", "male", "female"} }

\* patients of calculateEGFR: creatinine 0.7 to 4.0 mg/dL or absent, age 30 to 80 or
\* absent, sex male, female or absent
EgfrCalls ==
  { [fn |-> "calculateEGFR",
     args |-> << OptN("creatinine", cr) @@ OptN("age", a) @@ OptS("sex", sex) >>] :
      cr \in {0, 70, 80, 100, 120, 150, 200, 400}, a \in {0, 30, 40, 50, 70, 75, 80},
      sex \in {"", "male", "female"} }

\* patients of calculateAllRisks: each calculator's inputs complete, partly given and
\* absent
AllRisksCalls ==
  { [fn |-> "calculateAllRisks",
     args |-> << OptN("age", a) @@ OptS("sex", sex) @@ OptN("totalCholesterol", lipids[1])
                 @@ OptN("hdl", lipids[2]) @@ OptN("systolicBP", sbp) @@ OptB("afib", afib)
                 @@ OptN("ef", hf[1]) @@ OptN("nyha", hf[2]) @@ OptS("diabetesStatus", dm)
                 @@ OptN("creatinine", cr) @@ OptB("smoker", more) @@ OptB("htnTreatment", more)
                 @@ OptS("race", IF more THEN "black" ELSE "") @@ OptB("priorMI", more)
                 @@ OptN("weight", IF more THEN 100 ELSE 0)
                 @@ OptN("height", IF more THEN 170 ELSE 0) >>] :
      a \in {0, 55, 70}, sex \in {"", "male", "female"},
      lipids \in {<<0, 0>>, <<200, 0>>, <<200, 50>>, <<240, 40>>}, sbp \in {0, 150},
      afib \in BOOLEAN, hf \in {<<0, 0>>, <<30, 0>>, <<55, 0>>, <<0, 2>>, <<30, 3>>},
      dm \in {"", "type2"}, cr \in {0, 120}, more \in BOOLEAN }

\* patients and risk bundles of estimateLifeExpectancy: ages below, inside and above the
\* table, each comorbidity alone and all together, eGFR in every band, absent and null
LifeExpectancyCalls ==
  { [fn |-> "estimateLifeExpectancy",
     args |-> << OptN("age", a) @@ OptS("sex", sex) @@ OptN("ef", hf[1])
                 @@ OptB("chfHistory", hf[2] = 1)
                 @@ OptB("cancer", flags \in {1, 5}) @@ OptB("frailty", flags \in {2, 5})
                 @@ OptB("dementia", flags \in {3, 5}) @@ OptB("copd", flags \in {4, 5})
                 @@ OptB("priorMI", cv = 1) @@ OptB("priorStroke", cv = 2)
                 @@ OptS("diabetesStatus", dm),
                 IF e = 0 THEN Empty ELSE IF e = 1 THEN [egfr |-> {}] ELSE [egfr |-> {[egfr |-> e]}] >>] :
      a \in {0, 45, 70, 97}, sex \in {"", "male", "female", "other"},
      hf \in {<<0, 0>>, <<30, 0>>, <<39, 1>>, <<40, 1>>, <<0, 1>>}, flags \in 0..5,
      cv \in 0..2, dm \in {"", "type2", "prediabetes"}, e \in {0, 1, 29, 30, 45, 60} }

\* the hazard-category flags of a medication's elderly_caution metadata
CautionFlags ==
  {"fall_risk", "cognitive_impairment", "sedation", "hypoglycemia_risk", "avoid_in_hf",
   "narrow_therapeutic_window", "avoid_if_frail"}

\* medications without elderly_caution, with one flag, with fall_risk and avoid_if_frail
\* and with every flag, for patients of every age band with every patient flag
ElderlySafetyCalls ==
  { [fn |-> "checkElderlySafety",
     args |-> << IF flags = {"none"} THEN [class |-> "Generic"]
                 ELSE [class |-> "Generic",
                       elderly_caution |-> [f \in flags |-> TRUE]],
                 OptN("age", a) @@ OptB("frailty", frail) @@ OptB("fallRisk", falls)
                 @@ OptB("dementia", dementia) @@ OptB("chfHistory", hf = 1)
                 @@ OptN("ef", IF hf > 1 THEN hf ELSE 0) >>] :
      flags \in { {"none"}, {} } \cup { {f} : f \in CautionFlags }
                \cup { {"fall_risk", "avoid_if_frail"}, CautionFlags },
      a \in {0, 64, 65, 74, 75}, frail \in BOOLEAN, falls \in BOOLEAN, dementia \in BOOLEAN,
      hf \in {0, 1, 49, 50} }

Calls ==
  CompetingRiskCalls \cup ExpectedBenefitCalls \cup HasbledCalls \cup ChadsvascCalls
  \cup EgfrCalls \cup AllRisksCalls \cup LifeExpectancyCalls \cup ElderlySafetyCalls

InitCalc ==
  /\ medication = carvedilol
  /\ patientData = Empty
  /\ calculatedRisks = Empty
  /\ preferences = Empty
  /\ results = NoResults
  /\ status = "idle"
  /\ remembered = {}
  /\ evaluations = 0
  /\ call \in Calls
  /\ ret = {}

\* what a call leaves alone
CallFrame ==
  UNCHANGED <<medication, patientData, calculatedRisks, preferences, results, status,
              remembered, evaluations, call>>

CallGetCompetingRiskFactor ==
  /\ call.fn = "getCompetingRiskFactor" /\ ret = {}
  /\ ret' = {getCompetingRiskFactor(call.args[1], call.args[2], call.args[3])}
  /\ CallFrame

CallCalculateExpectedBenefit ==
  /\ call.fn = "calculateExpectedBenefit" /\ ret = {}
  /\ ret' = {calculateExpectedBenefit(call.args[1], call.args[2], call.args[3], call.args[4],
                                       call.args[5])}
  /\ CallFrame

CallCalculateHASBLED ==
  /\ call.fn = "calculateHASBLED" /\ ret = {}
  /\ ret' = {calculateHASBLED(call.args[1])}
  /\ CallFrame

CallCalculateCHADS2VASc ==
  /\ call.fn = "calculateCHADS2VASc" /\ ret = {}
  /\ ret' = {calculateCHADS2VASc(call.args[1])}
  /\ CallFrame

CallCalculateEGFR ==
  /\ call.fn = "calculateEGFR" /\ ret = {}
  /\ ret' = {calculateEGFR(call.args[1])}
  /\ CallFrame

CallCalculateAllRisks ==
  /\ call.fn = "calculateAllRisks" /\ ret = {}
  /\ ret' = {calculateAllRisks(call.args[1])}
  /\ CallFrame

CallEstimateLifeExpectancy ==
  /\ call.fn = "estimateLifeExpectancy" /\ ret = {}
  /\ ret' = {estimateLifeExpectancy(call.args[1], call.args[2])}
  /\ CallFrame

CallCheckElderlySafety ==
  /\ call.fn = "checkElderlySafety" /\ ret = {}
  /\ ret' = {checkElderlySafety(call.args[1], call.args[2])}
  /\ CallFrame

NextCalc ==
  \/ CallCheckElderlySafety
  \/ CallEstimateLifeExpectancy
  \/ CallCalculateAllRisks
  \/ CallCalculateEGFR
  \/ CallGetCompetingRiskFactor
  \/ CallCalculateExpectedBenefit
  \/ CallCalculateHASBLED
  \/ CallCalculateCHADS2VASc

SpecCalc == InitCalc /\ [][NextCalc]_vars

(***************************************************************************)
(* Properties of the recommendation cascade                                *)
(***************************************************************************)
Returned == status = "returned"
Evaluated == status # "idle"

\* goalsOfCare is absent or one of the four documented tiers
DocumentedGoals == GoalsOfCare(preferences) \in 1..4

\* the patient is frail and the medication's elderly-caution metadata has avoid_if_frail
FrailtyContraindication ==
  /\ Flag(patientData, "frailty")
  /\ Has(medication, "elderly_caution")
  /\ Flag(medication.elderly_caution, "avoid_if_frail")

HighSeverity == results.elderlyCaution # {} /\ The(results.elderlyCaution).overallSeverity = "high"

\* the threshold the documentation gives for a tier, in thousandths
DocumentedThreshold(goc) ==
  CASE goc = 1 -> 3000 [] goc = 2 -> 1000 [] goc = 3 -> 300 [] goc = 4 -> 0

\* C1: whenever the rounded net score totalBenefit - totalHarm is strictly negative the
\* recommendation is 'not-recommended', whatever the frailty contraindication, the
\* listed-hazard warning, the severity, the goals of care, the burden and the cost
C1_NegativeNetNotRecommended ==
  Evaluated /\ results.totalBenefit - results.totalHarm < 0
    => Returned /\ results.recommendation = "not-recommended"

C1_Witness ==
  /\ Returned
  /\ results.totalBenefit - results.totalHarm < 0
  /\ FrailtyContraindication
  /\ results.beersWarning # {}
  /\ HighSeverity
  /\ results.recommendation = "not-recommended"

\* C2: with a net score >= 0 and the frailty contraindication present the recommendation
\* is 'caution-elderly', for every net score, goals-of-care tier and listed-hazard warning
C2_FrailtyGivesCautionElderly ==
  Evaluated /\ results.netBenefit >= 0 /\ FrailtyContraindication
    => Returned /\ results.recommendation = "caution-elderly"

C2_Witness ==
  /\ Returned
  /\ FrailtyContraindication
  /\ results.netBenefit >= 0 /\ results.netBenefit < 1000
  /\ GoalsOfCare(preferences) = 1
  /\ results.beersWarning # {}
  /\ HighSeverity
  /\ results.recommendation = "caution-elderly"

\* the case of C3: net score >= 0, no frailty contraindication, a listed-hazard warning
\* with high elderly-caution severity, patient >= 65, a documented goals-of-care tier
C3_Case ==
  /\ Evaluated /\ DocumentedGoals
  /\ results.netBenefit >= 0
  /\ ~FrailtyContraindication
  /\ results.beersWarning # {}
  /\ HighSeverity
  /\ GE(patientData, "age", 65)

\* C3 as stated: 'not-recommended' below a net score of 1.0 and 'caution-elderly'
\* otherwise, for every goals-of-care tier
C3_AsStated ==
  C3_Case => results.recommendation =
               IF results.netBenefit < 1000 THEN "not-recommended" ELSE "caution-elderly"

\* C3 (amended): 'not-recommended' when the net score is below 1.0 or below the
\* goals-of-care threshold, 'caution-elderly' otherwise
C3_FloorAndThreshold ==
  C3_Case => results.recommendation =
               IF results.netBenefit < Max(1000, DocumentedThreshold(GoalsOfCare(preferences)))
               THEN "not-recommended" ELSE "caution-elderly"

C3_Witness ==
  /\ C3_Case /\ Returned
  /\ GoalsOfCare(preferences) = 1
  /\ results.netBenefit >= 1000 /\ results.netBenefit < 3000
  /\ results.recommendation = "not-recommended"

\* C4: net score >= 0, no frailty contraindication, a listed-hazard warning without high
\* elderly-caution severity, patient >= 65: 'caution-elderly' if the net score meets the
\* goals-of-care threshold and 'marginal' otherwise
C4_ListedHazardModerate ==
  /\ Evaluated /\ DocumentedGoals
  /\ results.netBenefit >= 0
  /\ ~FrailtyContraindication
  /\ results.beersWarning # {}
  /\ ~HighSeverity
  /\ GE(patientData, "age", 65)
  => results.recommendation =
       IF results.netBenefit >= DocumentedThreshold(GoalsOfCare(preferences))
       THEN "caution-elderly" ELSE "marginal"

C4_Witness ==
  /\ Returned /\ DocumentedGoals
  /\ ~FrailtyContraindication
  /\ results.beersWarning # {}
  /\ results.elderlyCaution # {} /\ ~HighSeverity
  /\ GE(patientData, "age", 65)
  /\ results.netBenefit >= 3000
  /\ results.recommendation = "caution-elderly"

\* no safety rule of the cascade fires: no frailty contraindication and no listed-hazard
\* warning for a patient >= 65
NoSafetyRule ==
  /\ ~(results.elderlyCaution # {} /\ The(results.elderlyCaution).avoidRecommended)
  /\ ~(results.beersWarning # {} /\ GE(patientData, "age", 65))

C6_NeverRaises ==
  Evaluated => Returned /\ results.recommendation \in Tiers

RoundsTo(s, total) == 1000 * total - 500 <= s /\ s < 1000 * total + 500

\* totals are the rounded sums of the listed entries and the net score is their
\* difference
TotalsAreRoundedSums ==
  /\ RoundsTo(SumOver(results.benefits, "expectedBenefit"), results.totalBenefit)
  /\ RoundsTo(SumOver(results.harms, "expectedHarm"), results.totalHarm)
  /\ results.netBenefit = results.totalBenefit - results.totalHarm

\* C8 as stated: totals are the rounded sums, the net score is their difference, and
\* nntEquivalent is 100 / netBenefit when netBenefit > 0 and null otherwise
C8_AsStated ==
  Returned =>
    /\ TotalsAreRoundedSums
    /\ IF results.netBenefit > 0
       THEN \E n \in results.nntEquivalent : n * results.netBenefit = 100000
       ELSE results.nntEquivalent = {}

\* C8 (amended): totals are the rounded sums, the net score is their difference, and
\* nntEquivalent is 100 / netBenefit rounded to the nearest integer when netBenefit > 0
\* and null otherwise
C8_TotalsAndRoundedNnt ==
  Returned =>
    /\ TotalsAreRoundedSums
    /\ IF results.netBenefit > 0
       THEN /\ Cardinality(results.nntEquivalent) = 1
            /\ \A n \in results.nntEquivalent :
                  /\ 2 * (n * results.netBenefit - 100000) <= results.netBenefit
                  /\ 2 * (100000 - n * results.netBenefit) < results.netBenefit
       ELSE results.nntEquivalent = {}

C8_Witness ==
  /\ Returned
  /\ Len(results.benefits) >= 2
  /\ Len(results.harms) >= 1
  /\ SumOver(results.benefits, "expectedBenefit") % 1000 # 0
  /\ SumOver(results.harms, "expectedHarm") % 1000 # 0
  /\ results.netBenefit > 0
  /\ 100000 % results.netBenefit # 0
  /\ results.nntEquivalent # {}

\* C9: the net benefit equals the sum of expected benefits minus the sum of expected
\* harms minus the burden penalty
C9_NetSubtractsBurden ==
  Returned =>
    results.netBenefit = results.totalBenefit - results.totalHarm - results.burdenPenalty

\* the burden tier after the escalation the documentation describes
DocumentedTier ==
  LET tier == IF Has(medication, "burden") THEN medication.burden ELSE "moderate"
  IN  IF Is(preferences, "pillBurdenTolerance", "low")
      THEN CASE tier = "low" -> "moderate" [] tier = "moderate" -> "high" [] tier = "high" -> "high"
      ELSE tier

\* the surcharge the documentation describes, in thousandths
DocumentedSurcharge ==
  LET cost == IF Has(medication, "annualCost") THEN medication.annualCost ELSE 0
  IN  CASE Is(preferences, "costSensitivity", "high") /\ cost > 2000 -> 500
        [] Is(preferences, "costSensitivity", "moderate") /\ cost > 5000 -> 300
        [] OTHER -> 0

\* C10: the burden tier (default moderate) is escalated one step when pill-burden
\* tolerance is 'low' and unchanged otherwise; the penalty is 1.0 / 3.0 / 6.0 for the
\* resulting tier plus 0.5 (cost sensitivity high and cost > 2000) or 0.3 (moderate and
\* cost > 5000) and nothing else
C10_BurdenPenalty ==
  Evaluated =>
    /\ results.burdenLevel = DocumentedTier
    /\ results.burdenPenalty =
         (CASE DocumentedTier = "low" -> 1000 [] DocumentedTier = "moderate" -> 3000
            [] DocumentedTier = "high" -> 6000) + DocumentedSurcharge

C10_Witness ==
  /\ Returned
  /\ Is(medication, "burden", "low")
  /\ Is(preferences, "pillBurdenTolerance", "low")
  /\ Is(preferences, "costSensitivity", "high")
  /\ GE(medication, "annualCost", 5001)
  /\ results.burdenLevel = "moderate"
  /\ results.burdenPenalty = 3500

(***************************************************************************)
(* Properties of the helper functions                                      *)
(***************************************************************************)
Called(fn) == call.fn = fn /\ ret # {}

\* the effective horizon of the call in flight, in thousandths of a year
EffectiveHorizon ==
  Min(call.args[2], (IF call.args[3] # 0 THEN call.args[3] ELSE 10) * 1000)

\* life expectancy and time horizon both exceed the trial timeframe
BothExceedTimeframe ==
  /\ call.args[2] > call.args[1] * 100
  /\ (IF call.args[3] # 0 THEN call.args[3] ELSE 10) * 1000 > call.args[1] * 100

\* C11 as stated: the factor is exactly 1.0 whenever life expectancy and time horizon
\* both exceed the trial timeframe, and exactly 0.2 whenever the effective horizon is
\* <= 1, for every trial timeframe
C11_AsStated ==
  Called("getCompetingRiskFactor") =>
    /\ BothExceedTimeframe => ret = {[num |-> 1, den |-> 1]}
    /\ EffectiveHorizon <= 1000 => ret = {[num |-> 1, den |-> 5]}

\* C11 (amended): the factor is exactly 1.0 whenever life expectancy and time horizon
\* both exceed the trial timeframe, and exactly 0.2 whenever the effective horizon is
\* <= 1 and below the trial timeframe
C11_DiscountBoundary ==
  Called("getCompetingRiskFactor") =>
    /\ BothExceedTimeframe => ret = {[num |-> 1, den |-> 1]}
    /\ EffectiveHorizon <= 1000 /\ EffectiveHorizon < call.args[1] * 100
         => ret = {[num |-> 1, den |-> 5]}

C11_Witness ==
  /\ Called("getCompetingRiskFactor")
  /\ EffectiveHorizon <= 1000
  /\ BothExceedTimeframe
  /\ ret = {[num |-> 1, den |-> 1]}

\* the severity weight the documentation gives an outcome, in hundredths
DocumentedBenefitWeight(o) ==
  IF o \in DOMAIN OUTCOME_WEIGHTS THEN OUTCOME_WEIGHTS[o] ELSE 20

\* C12: with a direct positive NNT the benefit is (1 / (NNT x timeframe)) x severity
\* weight x 100 (weight 0.2 for an outcome outside the severity table), independent of
\* baseline risk and RRR; for fixed timeframe and outcome a larger NNT gives a strictly
\* smaller benefit; NNT 9 over 3 years for mortality gives 100/27
C12_DirectNntBenefit ==
  Called("calculateExpectedBenefit") /\ call.args[1] > 0 =>
    LET nnt == call.args[1]
        o == call.args[4]
        tf == call.args[5]
    IN  \A v \in ret :
          /\ v * (nnt * tf) <= DocumentedBenefitWeight(o) * 10000000
          /\ DocumentedBenefitWeight(o) * 10000000 < (v + 1) * (nnt * tf)
          /\ \A b \in BaselineChoices, r \in RrrChoices :
                calculateExpectedBenefit(nnt, b, r, o, tf) = v
          /\ \A n2 \in NntChoices :
                n2 > nnt => calculateExpectedBenefit(n2, call.args[2], call.args[3], o, tf) < v
          /\ (nnt = 9 /\ tf = 30 /\ o = "mortality") => v = 3703703

C12_Witness ==
  /\ Called("calculateExpectedBenefit")
  /\ call.args[1] = 9 /\ call.args[5] = 30 /\ call.args[4] = "mortality"
  /\ call.args[2] # 0 /\ call.args[3] # 0
  /\ ret = {3703703}

(***************************************************************************)
(* Properties of the harms list                                            *)
(***************************************************************************)
\* the medication's class is an oral anticoagulant, a vitamin-K antagonist or an
\* antiplatelet
BleedingRiskClass ==
  medication.class \in {"Direct Oral Anticoagulant (DOAC)", "Vitamin K Antagonist",
                        "Antiplatelet", "Antiplatelet (P2Y12 Inhibitor)",
                        "Anticoagulant + Antiplatelet"}

\* the risk bundle holds a HAS-BLED estimate
HasBleedEstimate ==
  /\ Has(calculatedRisks, "hasbled") /\ calculatedRisks.hasbled # {}
  /\ \A h \in calculatedRisks.hasbled : Has(h, "annualBleedRisk")

HarmEntries(name) ==
  { i \in 1..Len(results.harms) : results.harms[i].harm = name }

\* C13: for a bleeding-risk-bearing class evaluated with a HAS-BLED annual bleed risk of
\* r percent, the harms list has major_bleeding with expected harm
\* (r/100) x 0.85 x 0.15 x 100 and intracranial_bleeding with (r/100) x 0.12 x 0.6 x 100,
\* both attributed to the HAS-BLED score, and no entry computed from the static NNH; a
\* HAS-BLED score of 3 gives r = 3.7
C13_BleedingFromHasbled ==
  Returned /\ BleedingRiskClass /\ HasBleedEstimate =>
    \A h \in calculatedRisks.hasbled :
      /\ \E i \in HarmEntries("major_bleeding") :
            /\ results.harms[i].expectedHarm = h.annualBleedRisk * 12750
            /\ results.harms[i].source = "HAS-BLED score"
      /\ \E i \in HarmEntries("intracranial_bleeding") :
            /\ results.harms[i].expectedHarm = h.annualBleedRisk * 7200
            /\ results.harms[i].source = "HAS-BLED score"
      /\ \A i \in 1..Len(results.harms) : results.harms[i].source = "HAS-BLED score"
      /\ h.score = 3 => h.annualBleedRisk = 37

C13_Witness ==
  /\ Returned
  /\ medication.class = "Antiplatelet (P2Y12 Inhibitor)"
  /\ HasBleedEstimate
  /\ \E h \in calculatedRisks.hasbled : h.score = 3 /\ h.annualBleedRisk = 37
  /\ Len(results.harms) = 2
  /\ results.harms[1].expectedHarm = 471750
  /\ results.harms[2].expectedHarm = 266400

\* the annual risk of severe hypoglycemia the documentation describes, in thousandths
DocumentedHypoRisk ==
  LET old == GE(patientData, "age", 75)
      renal == /\ Has(calculatedRisks, "egfr") /\ calculatedRisks.egfr # {}
               /\ \A e \in calculatedRisks.egfr : e.egfr < 45
  IN  CASE old /\ renal -> 60 [] old /\ ~renal -> 40 [] ~old /\ renal -> 30 [] OTHER -> 20

PatientAdjustedEntries ==
  { i \in 1..Len(results.harms) : results.harms[i].source = "Patient-adjusted estimate" }

\* the part of C14 about the entry, its risk and its expected harm
HypoglycemiaEntry ==
  /\ Cardinality(PatientAdjustedEntries) = 1
  /\ \A i \in PatientAdjustedEntries :
        /\ results.harms[i].harm = "severe_hypoglycemia"
        /\ results.harms[i].expectedHarm = DocumentedHypoRisk * DocumentedBenefitWeight("severe_hypoglycemia") * 1000

\* C14 as stated: every sulfonylurea gets one severe_hypoglycemia entry with source
\* 'Patient-adjusted estimate', risk 2% x 2 (age >= 75) x 1.5 (eGFR < 45), expected harm
\* risk x severity weight x 100, and NNH 1 / risk (to one decimal: 16.7 for 6%)
C14_AsStated ==
  Returned /\ medication.class = "Sulfonylurea" =>
    /\ HypoglycemiaEntry
    /\ \A i \in PatientAdjustedEntries :
          /\ (results.harms[i].nnh * DocumentedHypoRisk - 100000) * 2 <= DocumentedHypoRisk * 10
          /\ (100000 - results.harms[i].nnh * DocumentedHypoRisk) * 2 <= DocumentedHypoRisk * 10

\* C14 (amended): as C14, with the NNH being 1 / risk rounded to the nearest integer
\* (17 for 6%)
C14_HypoglycemiaRoundedNnh ==
  Returned /\ medication.class = "Sulfonylurea" =>
    /\ HypoglycemiaEntry
    /\ \A i \in PatientAdjustedEntries :
          /\ results.harms[i].nnh % 100 = 0
          /\ (results.harms[i].nnh * DocumentedHypoRisk - 100000) * 2 <= DocumentedHypoRisk * 100
          /\ (100000 - results.harms[i].nnh * DocumentedHypoRisk) * 2 < DocumentedHypoRisk * 100

C14_Witness ==
  /\ Returned /\ medication.class = "Sulfonylurea"
  /\ GE(patientData, "age", 80)
  /\ DocumentedHypoRisk = 60
  /\ \E i \in PatientAdjustedEntries :
        results.harms[i].expectedHarm = 300000 /\ results.harms[i].nnh = 1700

(***************************************************************************)
(* Properties of the risk calculators                                      *)
(***************************************************************************)
\* the HAS-BLED factors the documentation lists that are present in a patient
DocumentedBleedFactors(p) ==
  { f \in {"H", "A", "L", "S", "B", "E", "D", "alcohol"} :
      \/ f = "H" /\ Has(p, "systolicBP") /\ p.systolicBP > 160
      \/ f = "A" /\ ((Has(p, "creatinine") /\ p.creatinine > 230) \/ (Has(p, "egfr") /\ p.egfr < 30))
      \/ f = "L" /\ Flag(p, "liverDisease")
      \/ f = "S" /\ Flag(p, "priorStroke")
      \/ f = "B" /\ (Flag(p, "priorBleed") \/ Flag(p, "anemia"))
      \/ f = "E" /\ Has(p, "age") /\ p.age > 65
      \/ f = "D" /\ (Flag(p, "antiplatelet") \/ Flag(p, "nsaidUse"))
      \/ f = "alcohol" /\ Flag(p, "alcohol") }

\* the annual bleed risk the documentation gives for a score of 0..5, in tenths of a percent
DocumentedBleedRisk(score) ==
  CASE score = 0 -> 11 [] score = 1 -> 10 [] score = 2 -> 19 [] score = 3 -> 37
    [] score = 4 -> 87 [] score = 5 -> 125 [] OTHER -> -1

DocumentedStrokeScore(p) ==
  (IF Flag(p, "chfHistory") \/ (Has(p, "ef") /\ p.ef < 40) THEN 1 ELSE 0)
  + (IF Flag(p, "htnTreatment") \/ (Has(p, "systolicBP") /\ p.systolicBP >= 140) THEN 1 ELSE 0)
  + (CASE Has(p, "age") /\ p.age >= 75 -> 2
       [] Has(p, "age") /\ p.age \in 65..74 -> 1
       [] OTHER -> 0)
  + (IF Has(p, "diabetesStatus") /\ p.diabetesStatus \in {"type1", "type2"} THEN 1 ELSE 0)
  + (IF Flag(p, "priorStroke") THEN 2 ELSE 0)
  + (IF Flag(p, "priorMI") \/ Flag(p, "pvd") THEN 1 ELSE 0)
  + (IF Has(p, "sex") /\ p.sex = "female" THEN 1 ELSE 0)

\* the annual stroke risk the documentation gives for scores 0..9, in tenths of a percent
DocumentedStrokeRisk == <<2, 6, 22, 32, 48, 72, 97, 112, 108, 122>>

\* patients whose factors accumulate one at a time, with and without a prior stroke
StrokeLadder ==
  { OptB("chfHistory", k >= 1) @@ OptB("htnTreatment", k >= 2)
    @@ OptN("age", IF k >= 4 THEN 75 ELSE IF k >= 3 THEN 65 ELSE 0)
    @@ OptS("diabetesStatus", IF k >= 5 THEN "type2" ELSE "") @@ OptB("pvd", k >= 6)
    @@ OptS("sex", IF k >= 7 THEN "female" ELSE "") @@ OptB("priorStroke", stroke) :
      k \in 0..7, stroke \in BOOLEAN }

DocumentedStage(value) ==
  CASE value >= 90 -> "G1 (Normal)" [] value \in 60..89 -> "G2 (Mild)"
    [] value \in 45..59 -> "G3a (Mild-Mod)" [] value \in 30..44 -> "G3b (Mod-Severe)"
    [] value \in 15..29 -> "G4 (Severe)" [] OTHER -> "G5 (Kidney Failure)"

\* the results of calculateEGFR for all modelled patients
EgfrResults == UNION { calculateEGFR(c.args[1]) : c \in EgfrCalls }

\* C16: in every result of calculateEGFR the stage is the one the boundaries 90 / 60 /
\* 45 / 30 / 15 give the returned egfr value, so two results with the same egfr value
\* carry the same stage
C16_StageOfReturnedValue ==
  Called("calculateEGFR") =>
    \A e \in ret : \A r \in e :
      /\ r.stage = DocumentedStage(r.egfr)
      /\ \A other \in EgfrResults : other.egfr = r.egfr => other.stage = r.stage

\* the patient of the call in flight has every ASCVD input / every eGFR input
AscvdInputsComplete ==
  \A f \in {"age", "totalCholesterol", "hdl", "systolicBP", "sex"} : Has(call.args[1], f)
EgfrInputsComplete == \A f \in {"creatinine", "age"} : Has(call.args[1], f)

\* heart-failure survival applies: ejection fraction < 50 or NYHA symptoms
HeartFailureApplies ==
  \/ Has(call.args[1], "ef") /\ call.args[1].ef < 50
  \/ Has(call.args[1], "nyha") /\ call.args[1].nyha > 0

\* the part of C15 about the scores that need a precondition
PreconditionedEntries(bundle) ==
  /\ Has(bundle, "chadsvasc") <=> Flag(call.args[1], "afib")
  /\ Has(bundle, "hasbled") <=> Flag(call.args[1], "afib")
  /\ Has(bundle, "seattleHF") => HeartFailureApplies
  /\ Has(bundle, "hfRisk") => HeartFailureApplies
  /\ Has(bundle, "ukpds") => /\ Has(call.args[1], "diabetesStatus")
                             /\ call.args[1].diabetesStatus \in {"type1", "type2"}
  /\ Has(bundle, "egfr") => Has(call.args[1], "creatinine")

\* C15 as stated: stroke and bleeding scores are present exactly when the patient has
\* atrial fibrillation, heart-failure survival only with ejection fraction < 50 or NYHA
\* symptoms, and with incomplete ASCVD or eGFR inputs the bundle has no ascvd / egfr
\* entry at all
C15_AsStated ==
  Called("calculateAllRisks") =>
    \A bundle \in ret :
      /\ PreconditionedEntries(bundle)
      /\ ~AscvdInputsComplete => ~Has(bundle, "ascvd")
      /\ ~EgfrInputsComplete => ~Has(bundle, "egfr")

\* C15 (amended): as C15, but with incomplete ASCVD inputs the ascvd entry is present and
\* holds a null risk, and with creatinine but no age the egfr entry is present and null;
\* the egfr entry is absent without creatinine, and the heart-failure survival entry
\* holds a survival only with an ejection fraction < 50
C15_NullNotOmitted ==
  Called("calculateAllRisks") =>
    \A bundle \in ret :
      /\ PreconditionedEntries(bundle)
      /\ Has(bundle, "ascvd")
      /\ \A e \in bundle.ascvd : Has(e, "risk") <=> AscvdInputsComplete
      /\ Has(bundle, "egfr") <=> Has(call.args[1], "creatinine")
      /\ Has(bundle, "egfr") => (bundle.egfr # {} <=> EgfrInputsComplete)
      /\ Has(bundle, "seattleHF") =>
            \A e \in bundle.seattleHF :
              Has(e, "survival1yr") <=> (Has(call.args[1], "ef") /\ call.args[1].ef < 50)

C15_Witness ==
  /\ Called("calculateAllRisks")
  /\ ~AscvdInputsComplete /\ ~EgfrInputsComplete /\ Has(call.args[1], "creatinine")
  /\ Flag(call.args[1], "afib")
  /\ \E bundle \in ret :
        /\ bundle.ascvd = {[interpretation |-> "Insufficient data"]}
        /\ bundle.egfr = {}
        /\ Has(bundle, "hasbled")

(***************************************************************************)
(* Properties of the sub-rules of the cascade                              *)
(***************************************************************************)
\* the net score meets the threshold of a documented goals-of-care tier
ThresholdMet ==
  DocumentedGoals /\ results.netBenefit >= DocumentedThreshold(GoalsOfCare(preferences))

\* the tier the documented sub-rules give, in their order
DocumentedSubRule ==
  IF results.netBenefit >= 3000 THEN "strongly-recommended"
  ELSE IF GE(patientData, "age", 65) /\ HighSeverity THEN "consider"
  ELSE IF DocumentedTier = "high" /\ GoalsOfCare(preferences) \in {1, 2} THEN "consider"
  ELSE IF Has(medication, "annualCost") /\ medication.annualCost > 3000
          /\ Is(preferences, "costSensitivity", "high") THEN "consider"
  ELSE "recommended"

\* C19: when no safety rule fires and the net score meets the threshold, the tier is
\* strongly-recommended for a net score >= 3.0; else consider for a patient >= 65 with a
\* high-severity elderly caution; else consider for high burden (after escalation) with
\* tier 1 or 2; else consider for annual cost > 3000 with high cost sensitivity; else
\* recommended
C19_SubRuleOrder ==
  Returned /\ NoSafetyRule /\ ThresholdMet => results.recommendation = DocumentedSubRule

C19_Witness ==
  /\ Returned /\ NoSafetyRule /\ ThresholdMet
  /\ results.netBenefit >= 3000
  /\ GE(patientData, "age", 65) /\ HighSeverity
  /\ DocumentedTier = "high" /\ GoalsOfCare(preferences) = 1
  /\ Has(medication, "annualCost") /\ medication.annualCost > 3000
  /\ Is(preferences, "costSensitivity", "high")
  /\ results.recommendation = "strongly-recommended"

(***************************************************************************)
(* Properties of estimateLifeExpectancy                                    *)
(***************************************************************************)
\* the actuarial base value for the patient's sex and 5-year age bucket, in thousandths
DocumentedBase(p) ==
  LET age == IF Has(p, "age") THEN p.age ELSE 65
      bucket == CHOOSE b \in { 50 + 5 * k : k \in 0..9 } :
                  \/ b <= age /\ age < b + 5
                  \/ b = 50 /\ age < 50
                  \/ b = 95 /\ age >= 100
      sex == IF Has(p, "sex") THEN p.sex ELSE "male"
  IN  IF sex \in {"male", "female"} THEN baseLifeExpectancy[sex][bucket] * 1000 ELSE 15000

\* the documented factor of each comorbidity, in percent (100 when it is not present)
DocumentedFactors(p, risks) ==
  << IF Has(p, "ef") /\ p.ef > 0 /\ p.ef < 40 THEN 50
     ELSE IF Flag(p, "chfHistory") THEN 70 ELSE 100,
     IF Obj(risks, "egfr")
     THEN (CASE The(risks.egfr).egfr < 30 -> 50
             [] The(risks.egfr).egfr \in 30..44 -> 70
             [] The(risks.egfr).egfr \in 45..59 -> 85
             [] OTHER -> 100)
     ELSE 100,
     IF Flag(p, "cancer") THEN 40 ELSE 100,
     IF Flag(p, "frailty") THEN 60 ELSE 100,
     IF Flag(p, "dementia") THEN 50 ELSE 100,
     IF Flag(p, "copd") THEN 80 ELSE 100,
     IF Flag(p, "priorMI") \/ Flag(p, "priorStroke") THEN 85 ELSE 100,
     IF Has(p, "diabetesStatus") /\ p.diabetesStatus \in {"type1", "type2"} THEN 90 ELSE 100 >>

RECURSIVE ApplyFactors(_, _)
ApplyFactors(x, factors) ==
  IF factors = <<>> THEN x ELSE ApplyFactors((x * Head(factors)) \div 100, Tail(factors))

\* a patient with one more comorbidity than p
WithComorbidity(p) ==
  { f :> TRUE @@ p : f \in {"chfHistory", "cancer", "frailty", "dementia", "copd", "priorMI",
                             "priorStroke"} \ DOMAIN p }
  \cup (IF Has(p, "ef") THEN {} ELSE {"ef" :> 30 @@ p})
  \cup (IF Has(p, "diabetesStatus") /\ p.diabetesStatus \in {"type1", "type2"} THEN {}
        ELSE {"diabetesStatus" :> "type2" @@ p})

\* C20: estimateLifeExpectancy returns the base value times the factor of every present
\* comorbidity, floored at 0.5; the result is within [0.5, base value]; adding a
\* comorbidity (or a reduced eGFR) never increases it; age 70 male with ejection fraction
\* 30 gives 7.5
C20_LifeExpectancy ==
  Called("estimateLifeExpectancy") =>
    LET p == call.args[1]
        risks == call.args[2]
    IN  \A le \in ret :
          /\ le = Max(500, ApplyFactors(DocumentedBase(p), DocumentedFactors(p, risks)))
          /\ 500 <= le /\ le <= DocumentedBase(p)
          /\ \A q \in WithComorbidity(p) : estimateLifeExpectancy(q, risks) <= le
          /\ ~Has(risks, "egfr") =>
                \A e \in {29, 44, 59} : estimateLifeExpectancy(p, [egfr |-> {[egfr |-> e]}]) <= le
          /\ (p = [age |-> 70, sex |-> "male", ef |-> 30]) /\ risks = Empty => le = 7500

C20_Witness ==
  /\ Called("estimateLifeExpectancy")
  /\ call.args[1] = [age |-> 70, sex |-> "male", ef |-> 30] /\ call.args[2] = Empty
  /\ ret = {7500}

(***************************************************************************)
(* Properties of the benefits list                                         *)
(***************************************************************************)
\* the applicability predicates of the indications of the modelled medications; an
\* indication without a predicate never applies
DocumentedApplies(indication) ==
  LET P(f) == Flag(patientData, f)
  IN  CASE indication = "heart_failure" ->
             (Has(patientData, "ef") /\ patientData.ef \in 1..49)
             \/ (Has(patientData, "nyha") /\ patientData.nyha >= 1) \/ P("chfHistory")
        [] indication = "afib_stroke_prevention" -> P("afib")
        [] indication \in {"diabetes_cv", "diabetes_glycemic"} ->
             Has(patientData, "diabetesStatus") /\ patientData.diabetesStatus \in {"type1", "type2"}
        [] indication \in {"secondary_prevention", "post_mi"} ->
             P("priorMI") \/ P("priorStroke") \/ P("pvd")
        [] indication = "primary_prevention" -> ~P("priorMI") /\ ~P("priorStroke")
        [] indication \in {"acs", "stroke_secondary_prevention"} -> P("priorMI") \/ P("priorStroke")
        [] indication = "mechanical_valve" -> P("mechanicalValve")
        [] indication = "fall_prevention" ->
             P("osteoporosis") \/ (Has(patientData, "age") /\ patientData.age >= 65)
        [] OTHER -> FALSE

BenefitsOf(indication) ==
  { i \in 1..Len(results.benefits) : results.benefits[i].indication = indication }

ListedIndications ==
  { results.applicableIndications[i] : i \in 1..Len(results.applicableIndications) }

\* C21: each benefit entry belongs to an indication whose predicate is true for the
\* patient and that is listed in applicableIndications, and its discounted expected
\* benefit is strictly greater than 0.001; an indication whose predicate is false or
\* missing contributes no entry and nothing to totalBenefit
C21_BenefitsOfApplicableIndications ==
  Returned =>
    /\ \A i \in 1..Len(results.benefits) :
          /\ DocumentedApplies(results.benefits[i].indication)
          /\ results.benefits[i].indication \in ListedIndications
          /\ results.benefits[i].expectedBenefit > 1000
    /\ \A k \in 1..Len(medication.benefits) :
          ~DocumentedApplies(medication.benefits[k].indication) =>
            /\ BenefitsOf(medication.benefits[k].indication) = {}
            /\ medication.benefits[k].indication \notin ListedIndications
    /\ RoundsTo(SumOver(results.benefits, "expectedBenefit"), results.totalBenefit)

C21_Witness ==
  /\ Returned
  /\ \E k \in 1..Len(medication.benefits) :
        /\ medication.benefits[k].indication = "deficiency_treatment"
        /\ \E j \in 1..Len(medication.benefits[k].outcomes) :
              Has(medication.benefits[k].outcomes[j], "nnt")
  /\ ~DocumentedApplies("post_mi")
  /\ Cardinality(BenefitsOf("fall_prevention")) = 1
  /\ Len(results.benefits) = 1

(***************************************************************************)
(* Properties of the static harms                                          *)
(***************************************************************************)
\* the calculated eGFR, or 1000 when the bundle has none
CalculatedEgfr ==
  IF Has(calculatedRisks, "egfr") /\ calculatedRisks.egfr # {}
  THEN The(calculatedRisks.egfr).egfr ELSE 1000

\* the documented modifiers of a harm for the patient, in percent, in the order they
\* are applied
DocumentedModifiers(harm) ==
  CASE harm \in {"hyperkalemia", "hyperkalemia_severe"} ->
         << CASE CalculatedEgfr < 30 -> 30 [] CalculatedEgfr \in 30..44 -> 50
              [] CalculatedEgfr \in 45..59 -> 70 [] OTHER -> 100,
            IF Has(patientData, "diabetesStatus") THEN 80 ELSE 100 >>
    [] harm = "aki" ->
         << CASE CalculatedEgfr < 30 -> 40 [] CalculatedEgfr \in 30..44 -> 60 [] OTHER -> 100 >>
    [] harm \in {"severe_hypoglycemia", "severe_hypoglycemia_elderly"} ->
         << IF Has(patientData, "age") /\ patientData.age >= 75 THEN 60 ELSE 100,
            IF CalculatedEgfr < 45 THEN 70 ELSE 100 >>
    [] harm = "new_onset_diabetes" ->
         << IF Has(patientData, "a1c") /\ patientData.a1c \in 57..64 THEN 50 ELSE 100 >>
    [] OTHER -> << >>

\* max(5, base NNH x modifiers), in hundredths
DocumentedAdjustedNnh(h) == Max(500, ApplyFactors(h.nnh * 100, DocumentedModifiers(h.name)))

\* the severity weight the documentation gives a harm, in hundredths
DocumentedHarmWeight(harm) ==
  IF harm \in DOMAIN OUTCOME_WEIGHTS THEN OUTCOME_WEIGHTS[harm] ELSE 5

\* (1 / (NNH x timeframe)) x severity weight x 100 in 1e-6, for an NNH in hundredths and
\* a timeframe in tenths of a year
DocumentedHarm(harm, nnh, timeframe) ==
  MulDiv(DocumentedHarmWeight(harm) * 10000000, 100, nnh * timeframe)

\* the entries of the harms list that come from the medication's static harm map
StaticEntries ==
  { i \in 1..Len(results.harms) :
      results.harms[i].source \notin {"Patient-adjusted estimate", "HAS-BLED score"} }

\* C22: on the static-harm path each harm with an NNH is evaluated with adjusted NNH =
\* max(5, base NNH x the documented modifiers), never below 5; its expected harm is
\* (1 / (adjusted NNH x timeframe)) x severity weight x 100, with weight 0.05 outside the
\* severity table; a larger NNH gives a strictly smaller expected harm
C22_AdjustedNnhAndHarm ==
  Returned =>
    /\ \A i \in StaticEntries :
          LET e == results.harms[i]
          IN  /\ \E k \in 1..Len(medication.harms) :
                    /\ medication.harms[k].name = e.harm
                    /\ Has(medication.harms[k], "nnh")
                    /\ e.nnh = DocumentedAdjustedNnh(medication.harms[k])
              /\ e.nnh >= 500
              /\ e.expectedHarm = DocumentedHarm(e.harm, e.nnh, e.timeframe)
              /\ \A larger \in {e.nnh + 100, 2 * e.nnh} :
                    calculateExpectedHarm(larger, e.harm, e.timeframe) < e.expectedHarm
    /\ medication.class = "Generic" /\ Has(medication, "harms") =>
          \A k \in 1..Len(medication.harms) :
            LET h == medication.harms[k]
            IN  Has(h, "nnh")
                /\ DocumentedHarm(h.name, DocumentedAdjustedNnh(h), NumOr(h, "timeframe", 10)) > 100
                  => \E i \in StaticEntries : results.harms[i].harm = h.name

C22_Witness ==
  /\ Returned
  /\ CalculatedEgfr < 30 /\ Has(patientData, "diabetesStatus")
  /\ GE(patientData, "age", 75)
  /\ \E i \in StaticEntries : results.harms[i].harm = "hyperkalemia" /\ results.harms[i].nnh = 500
  /\ \E i \in StaticEntries : results.harms[i].harm = "aki" /\ results.harms[i].nnh = 800
  /\ \E i \in StaticEntries : results.harms[i].harm = "severe_hypoglycemia" /\ results.harms[i].nnh = 2100
  /\ \E i \in StaticEntries : results.harms[i].harm = "rash" /\ results.harms[i].expectedHarm = 833333

(***************************************************************************)
(* Degenerate outcomes                                                     *)
(***************************************************************************)
\* the documented annual baseline risk of the outcomes of the degenerate cases, in 1e-5
DocumentedBaseline(outcome) ==
  CASE outcome = "stroke" ->
         IF Flag(patientData, "afib") /\ Has(calculatedRisks, "chadsvasc")
            /\ calculatedRisks.chadsvasc # {}
         THEN The(calculatedRisks.chadsvasc).annualStrokeRisk * 100 ELSE 500
    [] outcome = "mi" -> 1000
    [] OTHER -> 1

\* an outcome with no direct NNT whose rrr is zero or absent, or whose baseline risk x
\* rrr is not positive
Degenerate(o) ==
  /\ ~Has(o, "nnt")
  /\ \/ ~Has(o, "rrr")
     \/ o.rrr = 0
     \/ DocumentedBaseline(o.name) * o.rrr <= 0

\* the medication without its degenerate outcomes
WithoutDegenerate ==
  [medication EXCEPT !.benefits =
     [k \in 1..Len(medication.benefits) |->
        [medication.benefits[k] EXCEPT !.outcomes = SelectSeq(@, LAMBDA o : ~Degenerate(o))]]]

\* C23: an outcome with no direct NNT whose rrr is zero or absent, or whose baseline
\* risk x rrr is not positive, produces no benefit entry and leaves totalBenefit
\* unchanged, and the evaluation goes on with the remaining outcomes and indications:
\* the call returns (for a documented goals-of-care tier), and its benefits are those
\* of the medication without that outcome
C23_DegenerateIsZero ==
  Evaluated =>
    /\ DocumentedGoals => Returned
    /\ \A k \in 1..Len(medication.benefits) :
          \A j \in 1..Len(medication.benefits[k].outcomes) :
            Degenerate(medication.benefits[k].outcomes[j]) =>
              ~\E i \in BenefitsOf(medication.benefits[k].indication) :
                  results.benefits[i].outcome = medication.benefits[k].outcomes[j].name
    /\ RoundsTo(SumOver(results.benefits, "expectedBenefit"), results.totalBenefit)
    /\ LET rest == calculateNetBenefit(WithoutDegenerate, patientData, calculatedRisks,
                                       preferences)
       IN  /\ results.benefits = rest.benefits
           /\ results.totalBenefit = rest.totalBenefit

C23_Witness ==
  /\ Returned
  /\ \E k \in 1..Len(medication.benefits) :
        medication.benefits[k].indication = "primary_prevention"
        /\ Len(medication.benefits[k].outcomes) = 5
  /\ Flag(patientData, "afib") /\ DocumentedBaseline("stroke") = 0
  /\ \E i \in BenefitsOf("primary_prevention") : results.benefits[i].outcome = "mortality"
  /\ \E i \in BenefitsOf("afib_stroke_prevention") : results.benefits[i].outcome = "stroke_any"
  /\ Len(results.benefits) = 2

(***************************************************************************)
(* Properties of checkElderlySafety                                        *)
(***************************************************************************)
\* the documented patient condition of a warning type, for patient p
DocumentedCondition(type, p) ==
  LET elderly == Has(p, "age") /\ p.age >= 65
  IN  CASE type = "fall_risk" -> elderly \/ Flag(p, "fallRisk")
        [] type = "cognitive" -> elderly \/ Flag(p, "dementia")
        [] type \in {"sedation", "hypoglycemia", "toxicity"} -> elderly
        [] type = "heart_failure" ->
             Flag(p, "chfHistory") \/ (Has(p, "ef") /\ p.ef < 50)
        [] type = "frailty" -> Flag(p, "frailty")

\* the category flag behind a warning type
DocumentedFlag(type) ==
  CASE type = "fall_risk" -> "fall_risk"
    [] type = "cognitive" -> "cognitive_impairment"
    [] type = "sedation" -> "sedation"
    [] type = "hypoglycemia" -> "hypoglycemia_risk"
    [] type = "toxicity" -> "narrow_therapeutic_window"
    [] type = "heart_failure" -> "avoid_in_hf"
    [] type = "frailty" -> "avoid_if_frail"

\* the warnings of a result of checkElderlySafety
WarningsOf(r) == IF r.elderlyCaution = {} THEN <<>> ELSE The(r.elderlyCaution).warnings

\* the rules of C24 for medication m, patient p and result r
HazardRules(m, p, r) ==
  LET w == WarningsOf(r)
      carries(f) == Has(m, "elderly_caution") /\ Flag(m.elderly_caution, f)
  IN  /\ \A i \in 1..Len(w) :
            /\ carries(DocumentedFlag(w[i].type))
            /\ DocumentedCondition(w[i].type, p)
            /\ w[i].type = "fall_risk" =>
                  (w[i].severity = "high"
                     <=> (Has(p, "age") /\ p.age >= 75) \/ Flag(p, "fallRisk")
                         \/ Flag(p, "frailty"))
      /\ r.elderlyCaution # {} =>
            (The(r.elderlyCaution).overallSeverity = "high"
               <=> \E i \in 1..Len(w) : w[i].severity = "high")
      /\ (r.elderlyCaution # {} /\ The(r.elderlyCaution).avoidRecommended)
            <=> (Flag(p, "frailty") /\ carries("avoid_if_frail"))

\* C24: a hazard-category warning is emitted only when the medication carries that
\* category flag and the patient condition holds (fall risk: age >= 65 or fall-prone;
\* cognitive: age >= 65 or dementia; sedation, hypoglycemia, narrow therapeutic window:
\* age >= 65; heart failure: history or ejection fraction < 50; frailty: frail); the
\* fall-risk warning is 'high' exactly when the patient is >= 75, fall-prone or frail;
\* overallSeverity is 'high' exactly when an emitted warning is 'high'; avoidRecommended
\* is set exactly when the patient is frail and the medication has avoid_if_frail
C24_HazardWarnings ==
  call.fn = "checkElderlySafety" /\ ret # {}
    => HazardRules(call.args[1], call.args[2], The(ret))

\* the rules of C24 hold for every patient whose age is recorded
HazardRulesWithAge ==
  call.fn = "checkElderlySafety" /\ ret # {} /\ Has(call.args[2], "age")
    => HazardRules(call.args[1], call.args[2], The(ret))

(***************************************************************************)
(* Monotonicity of getCompetingRiskFactor                                  *)
(***************************************************************************)
\* min(life expectancy, time horizon) of the arguments args, in thousandths of a year
HorizonOf(args) == Min(args[2], (IF args[3] # 0 THEN args[3] ELSE 10) * 1000)

\* the fraction a is at most the fraction b
AtMost(a, b) == a.num * b.den <= b.num * a.den

\* the factor of the call lies within [0.2, 1.0] and no call with the same trial
\* timeframe and a shorter or equal effective horizon has a larger factor
MonotoneWithinRange ==
  /\ AtMost([num |-> 1, den |-> 5], The(ret))
  /\ AtMost(The(ret), [num |-> 1, den |-> 1])
  /\ \A c \in CompetingRiskCalls :
        c.args[1] = call.args[1] /\ HorizonOf(c.args) <= HorizonOf(call.args)
          => AtMost(getCompetingRiskFactor(c.args[1], c.args[2], c.args[3]), The(ret))

\* C25: for a fixed trial timeframe the factor of getCompetingRiskFactor is
\* non-decreasing in the effective horizon min(life expectancy, time horizon) and lies
\* within [0.2, 1.0]
C25_MonotoneDiscount ==
  call.fn = "getCompetingRiskFactor" /\ ret # {} => MonotoneWithinRange

\* the property of C25 holds for trial timeframes of at most five years
MonotoneUpToFiveYears ==
  call.fn = "getCompetingRiskFactor" /\ ret # {} /\ call.args[1] <= 50 => MonotoneWithinRange

(***************************************************************************)
(* Harms counted once                                                      *)
(***************************************************************************)
\* C26: no harm is counted twice: the harm identifiers of the harms list are pairwise
\* distinct; a sulfonylurea whose static harm map lists severe_hypoglycemia does not
\* also receive a synthesized severe_hypoglycemia entry
C26_HarmsPairwiseDistinct ==
  Returned =>
    \A i \in 1..Len(results.harms) : \A j \in 1..Len(results.harms) :
      results.harms[i].harm = results.harms[j].harm => i = j

(***************************************************************************)
(* Bleeding harm of the bleeding-risk classes                              *)
(***************************************************************************)
\* the medication's static harm map lists major_bleeding with a positive NNH
ListsMajorBleeding ==
  /\ Has(medication, "harms")
  /\ \E k \in 1..Len(medication.harms) :
        /\ medication.harms[k].name = "major_bleeding"
        /\ Has(medication.harms[k], "nnh") /\ medication.harms[k].nnh > 0

\* C27: for a bleeding-risk-class medication whose static harm map lists major_bleeding
\* with a positive NNH, every evaluation yields a major_bleeding harm entry and a
\* positive totalHarm, derived from the HAS-BLED estimate when the risk bundle has one
\* and from the static NNH when it has none
C27_BleedingNeverDropped ==
  Returned /\ BleedingRiskClass /\ ListsMajorBleeding =>
    /\ results.totalHarm > 0
    /\ \E i \in HarmEntries("major_bleeding") :
          results.harms[i].source = "HAS-BLED score" <=> HasBleedEstimate

\* with a HAS-BLED estimate the major_bleeding entry is there
BleedingKeptWithEstimate ==
  Returned /\ BleedingRiskClass /\ ListsMajorBleeding /\ HasBleedEstimate =>
    /\ results.totalHarm > 0
    /\ \E i \in HarmEntries("major_bleeding") : results.harms[i].source = "HAS-BLED score"

(***************************************************************************)
(* The elderly of the safety screen and of the cascade                     *)
(***************************************************************************)
\* the tiers of a surfaced listed-hazard warning
HazardTiers == {"caution-elderly", "marginal", "not-recommended"}

\* C28: whenever a result carries a surfaced listed-hazard warning its recommendation
\* is caution-elderly, marginal or not-recommended, never recommended,
\* strongly-recommended or consider, for every patient including one whose age is absent
C28_ScreenAndCascadeAgree ==
  Returned /\ results.beersWarning # {} => results.recommendation \in HazardTiers

\* the screen and the cascade agree for every patient whose age is recorded
AgreeWithAge ==
  Returned /\ results.beersWarning # {} /\ Has(patientData, "age")
    => results.recommendation \in HazardTiers

(***************************************************************************)
(* A medication without benefit                                            *)
(***************************************************************************)
\* no indication of the medication applies to the patient
NoBenefit == Len(results.applicableIndications) = 0 /\ results.totalBenefit = 0

\* C29: when no indication of the medication applies to the patient, the recommendation
\* is never recommended, strongly-recommended or consider, for every goals-of-care tier
\* including tier 4
C29_NoBenefitNotEndorsed ==
  Returned /\ NoBenefit
    => results.recommendation \notin {"recommended", "strongly-recommended", "consider"}

\* under tiers 1 to 3 and the default a medication without benefit is not endorsed
NotEndorsedBelowTierFour ==
  Returned /\ NoBenefit /\ GoalsOfCare(preferences) # 4
    => results.recommendation \notin {"recommended", "strongly-recommended", "consider"}

(***************************************************************************)
(* Frailty and rejection                                                   *)
(***************************************************************************)
\* the recommendation of the same evaluation for the patient with the frailty flag set
FrailRecommendation ==
  calculateNetBenefit(medication, ("frailty" :> TRUE) @@ patientData, calculatedRisks,
                      preferences).recommendation

\* C30: for two evaluations that differ only in the patient's frailty flag, if the
\* non-frail patient's recommendation is 'not-recommended' then so is the frail
\* patient's
C30_FrailtyNeverSoftens ==
  Returned /\ DocumentedGoals /\ ~Flag(patientData, "frailty")
  /\ results.recommendation = "not-recommended"
    => FrailRecommendation = "not-recommended"

\* without the frailty contraindication the frail patient is rejected as well
FrailtyKeepsRejection ==
  Returned /\ DocumentedGoals /\ ~Flag(patientData, "frailty")
  /\ results.recommendation = "not-recommended"
  /\ ~(Has(medication, "elderly_caution") /\ Flag(medication.elderly_caution, "avoid_if_frail"))
    => FrailRecommendation = "not-recommended"

====
